---- MODULE Spec2Model ----
(***************************************************************************)
(* Multi-agent task routing of the PM agent: the keyword classifier        *)
(* (detect_agent_specialty), the two dispatch loops                        *)
(* (execute_with_specialist_agent, execute_task_with_dev_agent) and the    *)
(* batch driver (auto_assign_task, batch_assign_tasks).                    *)
(*                                                                         *)
(* Python strings are TLA+ strings.  The non-ASCII symbols of the source   *)
(* are written as ASCII stand-ins, one stand-in per code point, so that    *)
(* substring tests between them behave as in the source.                   *)
(***************************************************************************)
EXTENDS Integers, Sequences, FiniteSets, TLC

VARIABLES
    tasks,          \* the task table: task id -> row (title, description, status)
    call,           \* the running / finished dispatch call
    batch,          \* the running / finished batch_assign_tasks call
    cls,            \* one call of detect_agent_specialty on free text
    dist,           \* the running / finished distribute_tasks_intelligently call
    config,         \* the file agent_config.json
    dirs,           \* the worker directories under dev-agents: name -> stage
    reg,            \* per caller, its running / finished create_new_agent call
    committed,      \* the workers create_new_agent has confirmed as created
    mon,            \* the scheduled job that is running, and its position
    sink,           \* the messages the running scheduled job has sent to the chat, in order
    dispatched,     \* the dispatch calls the running scheduled job has made, in order
    past            \* what the scheduled jobs that have returned did: tasks requested, projects alerted

core == <<tasks, call, batch, cls>>
regVars == <<config, dirs, reg, committed>>
monVars == <<mon, sink, dispatched, past>>
ext == <<dist, regVars, monVars>>
vars == <<core, ext>>

-----------------------------------------------------------------------------
(* Bounds of the model                                                      *)

NumTasks == 3         \* rows in the task table; id NumTasks + 1 has no row
MaxBatch == 2         \* longest task_ids list given to batch_assign_tasks
MaxTitleWords == 2    \* longest title, in words, given to the classifier

-----------------------------------------------------------------------------
(* Python values                                                            *)

None == <<>>                       \* Optional[str]: None, or Some(s)
Some(s) == <<s>>
OrEmpty(o) == IF o = None THEN "" ELSE o[1]       \* (x or "")
FalsyNoneOnly(o) == o = None                      \* x is None
Falsy(o) == o = None \/ o[1] = ""                 \* not x

Min(a, b) == IF a < b THEN a ELSE b

\* str.__contains__: k in s
Contains(s, k) ==
    \E i \in 1..(Len(s) - Len(k) + 1) : SubSeq(s, i, i + Len(k) - 1) = k

\* the length of the first code point of s: a stand-in "<U+...>" is one code point
FirstLen(s) ==
    IF Len(s) >= 3 /\ SubSeq(s, 1, 3) = "<U+"
    THEN CHOOSE j \in 1..Len(s) :
            /\ SubSeq(s, j, j) = ">"
            /\ \A k \in 1..(j - 1) : SubSeq(s, k, k) # ">"
    ELSE 1

\* s[:n], counted in code points (the count is halved at each level)
RECURSIVE Prefix(_, _)
Prefix(s, n) ==
    IF n = 0 \/ Len(s) = 0 THEN ""
    ELSE IF n = 1 THEN SubSeq(s, 1, FirstLen(s))
    ELSE LET front == Prefix(s, n \div 2)
         IN  front \o Prefix(SubSeq(s, Len(front) + 1, Len(s)), n - (n \div 2))

\* "\n".join(lines)
RECURSIVE JoinLines(_)
JoinLines(lines) ==
    IF lines = <<>> THEN ""
    ELSE IF Len(lines) = 1 THEN lines[1]
    ELSE lines[1] \o "\n" \o JoinLines(Tail(lines))

UpperChars == "ABCDEFGHIJKLMNOPQRSTUVWXYZ"
LowerChars == "abcdefghijklmnopqrstuvwxyz"

UpperSet == {SubSeq(UpperChars, i, i) : i \in 1..Len(UpperChars)}
LowerOf ==
    [u \in UpperSet |->
        LET i == CHOOSE j \in 1..Len(UpperChars) : SubSeq(UpperChars, j, j) = u
        IN  SubSeq(LowerChars, i, i)]

LowerChar(c) == IF c \in UpperSet THEN LowerOf[c] ELSE c

\* str.lower() on ASCII text (the text is halved at each level)
RECURSIVE Lower(_)
Lower(s) ==
    IF Len(s) = 0 THEN ""
    ELSE IF Len(s) = 1 THEN LowerChar(s)
    ELSE LET h == Len(s) \div 2
         IN  Lower(SubSeq(s, 1, h)) \o Lower(SubSeq(s, h + 1, Len(s)))

\* the symbols of the source files
CheckMark == "<U+2705>"                      \* white heavy check mark
CrossMark == "<U+274C>"                      \* cross mark
Target == "<U+1F3AF>"                        \* direct hit
MojiCheck == "<U+00E2><U+0153><U+2026>"      \* the three code points multi_agent_tools.py holds in place of the check mark
Package == "<U+1F4E6>"                       \* package
MojiCross == "<U+00E2><U+0152>"              \* the two code points multi_agent_tools.py holds in place of the cross mark

-----------------------------------------------------------------------------
(* multi_agent_tools.py: the worker table                                   *)

\* a dict keeps insertion order: the table is a sequence of entries
DEV_AGENTS == <<
    [key |-> "frontend",
     endpoint |-> "http://localhost:3001",
     name |-> "Frontend Agent",
     specialty |-> "HTML/CSS/JS/React/UI/UX",
     keywords |-> <<"frontend", "ui", "ux", "html", "css", "javascript", "typescript",
                    "react", "vue", "angular", "component", "interface", "layout",
                    "styling", "responsive", "tailwind", "scss", "sass">>],
    [key |-> "backend",
     endpoint |-> "http://localhost:3002",
     name |-> "Backend Agent",
     specialty |-> "Python/Node.js/APIs/Server",
     keywords |-> <<"backend", "api", "server", "endpoint", "python", "nodejs", "express",
                    "fastapi", "flask", "django", "rest", "graphql", "microservice",
                    "authentication", "authorization", "middleware">>],
    [key |-> "database",
     endpoint |-> "http://localhost:3003",
     name |-> "Database Agent",
     specialty |-> "SQL/PostgreSQL/MongoDB/Data",
     keywords |-> <<"database", "sql", "postgresql", "mysql", "mongodb", "schema",
                    "migration", "query", "orm", "data", "storage", "sqlite", "index">>]
>>

\* DEV_AGENTS.keys(), in order
AgentKeys == [i \in 1..Len(DEV_AGENTS) |-> DEV_AGENTS[i].key]

\* agent_key in DEV_AGENTS
InDevAgents(k) == \E i \in 1..Len(DEV_AGENTS) : DEV_AGENTS[i].key = k

\* DEV_AGENTS[agent_key]
AgentInfo(k) == DEV_AGENTS[CHOOSE i \in 1..Len(DEV_AGENTS) : DEV_AGENTS[i].key = k]

-----------------------------------------------------------------------------
(* multi_agent_tools.py: detect_agent_specialty                             *)

\* combined = f"{task_title.lower()} {(task_description or '').lower()}"
Combined(title, description) == Lower(title) \o " " \o Lower(OrEmpty(description))

\* sum(1 for keyword in keywords if keyword in combined)
RECURSIVE KeywordScore(_, _)
KeywordScore(keywords, combined) ==
    IF keywords = <<>> THEN 0
    ELSE (IF Contains(combined, Head(keywords)) THEN 1 ELSE 0)
         + KeywordScore(Tail(keywords), combined)

\* the scores dict, keyed by agent key
Scores(combined) ==
    [k \in {DEV_AGENTS[i].key : i \in 1..Len(DEV_AGENTS)} |->
        KeywordScore(AgentInfo(k).keywords, combined)]

MaxTakesLaterOnTie(scoreNext, scoreBest) == scoreNext >= scoreBest

\* whether max() replaces its current best by the next key
MaxTakesLater(scoreNext, scoreBest) == scoreNext > scoreBest

\* max(scores, key=scores.get): the keys are visited in dict order, the first
\* key is the start value and a later key replaces it only with a greater score
RECURSIVE MaxKey(_, _, _)
MaxKey(keys, scores, best) ==
    IF keys = <<>> THEN best
    ELSE MaxKey(Tail(keys), scores,
                IF MaxTakesLater(scores[Head(keys)], scores[best])
                THEN Head(keys) ELSE best)

NoClearMatchBelowTwo(best_score) == best_score <= 1

\* if best_score == 0
NoClearMatch(best_score) == best_score = 0

detect_agent_specialty(title, description) ==
    LET combined == Combined(title, description)
        scores == Scores(combined)
        best_agent == MaxKey(Tail(AgentKeys), scores, Head(AgentKeys))
        best_score == scores[best_agent]
    IN  IF NoClearMatch(best_score) THEN "general" ELSE best_agent

-----------------------------------------------------------------------------
(* The task table (src/core/database.py, class Task)                        *)

TaskIds == 1..NumTasks
RequestedIds == 1..(NumTasks + 1)      \* ids a caller may pass; the last has no row

TaskStatuses == {"todo", "in_progress", "blocked", "review", "done"}

\* the rows of the table: row i is SampleRows[i], and past the last sample the
\* samples repeat
SampleRows == <<
    [title |-> "Update favicon", description |-> None],
    [title |-> "Design REST API", description |-> Some("Flask server")],
    [title |-> "Code review of login UI", description |-> Some("")]
>>

SampleRow(i) == SampleRows[((i - 1) % Len(SampleRows)) + 1]

\* the new_status values update_task_status_tool is called with
StatusInputs == {"review", "done"}

\* get_task_by_id(session, task_id): the row, or None
GetTaskById(tbl, task_id) ==
    IF task_id \in DOMAIN tbl THEN Some(tbl[task_id]) ELSE None

\* session.query(Task).filter(Task.id == task_id).first()
QueryTaskFirst(tbl, task_id) ==
    IF task_id \in DOMAIN tbl THEN Some(tbl[task_id]) ELSE None

-----------------------------------------------------------------------------
(* What a worker endpoint does with one POST /execute-task                  *)

\* the JSON objects a worker may reply with
ReplyBodies ==
    {[type |-> "Reply", success |-> TRUE, files |-> f, error |-> None] :
        f \in {<<>>, <<"index.html">>}}
    \cup
    {[type |-> "Reply", success |-> FALSE, files |-> <<>>, error |-> e] :
        e \in {None, Some("tests failed")}}

\* the exceptions requests.post / response.json may raise
RaisedErrors ==
    {[type |-> t, success |-> FALSE, files |-> <<>>, error |-> None] :
        t \in {"ConnectionError", "ConnectTimeout", "ReadTimeout", "NotJSON"}}
    \cup
    {[type |-> "OtherError", success |-> FALSE, files |-> <<>>, error |-> Some("boom")]}

EndpointBehaviours == ReplyBodies \cup RaisedErrors

NoBehaviour == [type |-> "", success |-> FALSE, files |-> <<>>, error |-> None]

\* str(e) of a raised error
ErrorText(b) == IF b.error = None THEN b.type ELSE b.error[1]

CatchClauseRaisingOnFailure(b) ==
    CASE b.type = "Reply" /\ b.success -> "none"
      [] b.type \in {"ConnectionError", "ConnectTimeout"} -> "ConnectionError"
      [] b.type = "ReadTimeout" -> "Timeout"
      [] OTHER -> "Exception"

\* the except clause that catches what the attempt raised, "none" for a reply.
\* ConnectTimeout derives from both ConnectionError and Timeout and the
\* ConnectionError clause comes first; a body that is not JSON makes
\* response.json() raise, which only the last clause catches.
CatchClause(b) ==
    CASE b.type = "Reply" -> "none"
      [] b.type \in {"ConnectionError", "ConnectTimeout"} -> "ConnectionError"
      [] b.type = "ReadTimeout" -> "Timeout"
      [] OTHER -> "Exception"

-----------------------------------------------------------------------------
(* The retry loop shared by both dispatch functions                         *)

max_retries == 3
initial_retry_delay == 1

ShouldRetryOffByOne(attempt) == attempt < max_retries
ShouldRetryOffByTwo(attempt) == attempt < max_retries - 2

\* if attempt < max_retries - 1
ShouldRetry(attempt) == attempt < max_retries - 1

\* the places a dispatch call returns from
RetTaskNotFound == "task not found"          \* multi_agent_tools.py:90
RetUnknownAgent == "unknown agent"           \* multi_agent_tools.py:102
RetSuccess == "success"                      \* multi_agent_tools.py:133, dev_agent_tools.py:54
RetRejected == "worker rejected"             \* multi_agent_tools.py:136, dev_agent_tools.py:57
RetCannotConnect == "cannot connect"         \* multi_agent_tools.py:143, dev_agent_tools.py:64
RetTimeout == "timeout"                      \* multi_agent_tools.py:151, dev_agent_tools.py:75
RetOtherError == "other error"               \* multi_agent_tools.py:158, dev_agent_tools.py:86
RetFailedAfter == "failed after"             \* multi_agent_tools.py:160, dev_agent_tools.py:88
RetAutoNotFound == "auto: task not found"    \* proactive_tools.py:27
RetLeadDev == "lead dev"                     \* proactive_tools.py:41

\* for file in files_created: response_text += f"  - {file}\n"
RECURSIVE FileLines(_)
FileLines(files) ==
    IF files = <<>> THEN ""
    ELSE "  - " \o Head(files) \o "\n" \o FileLines(Tail(files))

\* a dispatch call: the locals of the function, the requests it has sent
\* (sent), what each attempt met (hist, and last in full), the status updates it has issued to
\* the task table (writes) and where it returned from (retAt)
NewCall(fn, caller, task_id, given_key) ==
    [pc |-> "attempt", fn |-> fn, caller |-> caller, task_id |-> task_id,
     given_key |-> given_key, detected |-> None, agent_key |-> "",
     attempt |-> 0, retry_delay |-> initial_retry_delay, slept |-> 0,
     hist |-> <<>>, last |-> NoBehaviour, sent |-> <<>>, writes |-> <<>>,
     retAt |-> "", ret |-> ""]

IdleCall == [NewCall("", "", 0, None) EXCEPT !.pc = "idle"]

Return(c, at, text) == [c EXCEPT !.pc = "done", !.retAt = at, !.ret = text]

RetryLoopStepRetryingRejected(c, b, url, msg) ==
    LET c1 == [c EXCEPT !.sent = Append(@, [url |-> url, task_id |-> c.task_id]),
                        !.hist = Append(@, b.type), !.last = b]
        clause == CatchClause(b)
    IN  IF clause = "none" /\ b.success
        THEN Return(c1, RetSuccess, msg.success)
        ELSE IF ShouldRetry(c.attempt)
             THEN LET c2 == [c1 EXCEPT !.slept = @ + c.retry_delay,
                                       !.retry_delay = @ * 2,
                                       !.attempt = @ + 1]
                  IN  IF c2.attempt < max_retries
                      THEN c2
                      ELSE Return(c2, RetFailedAfter, msg.failed_after)
             ELSE CASE clause = "none" -> Return(c1, RetRejected, msg.rejected)
                    [] clause = "ConnectionError" -> Return(c1, RetCannotConnect, msg.cannot_connect)
                    [] clause = "Timeout" -> Return(c1, RetTimeout, msg.timeout)
                    [] OTHER -> Return(c1, RetOtherError, msg.other)

\* one pass of "for attempt in range(max_retries)": the request is sent, the
\* endpoint behaves as b, and the function returns or goes round again
\* the retry loop with a Timeout clause that returns at the first timeout
RetryLoopStepNoRetryOnTimeout(c, b, url, msg) ==
    LET c1 == [c EXCEPT !.sent = Append(@, [url |-> url, task_id |-> c.task_id]),
                        !.hist = Append(@, b.type), !.last = b]
        clause == CatchClause(b)
    IN  IF clause = "none"
        THEN IF b.success
             THEN Return(c1, RetSuccess, msg.success)
             ELSE Return(c1, RetRejected, msg.rejected)
        ELSE IF clause = "Timeout"
             THEN Return(c1, RetTimeout, msg.timeout)
        ELSE IF ShouldRetry(c.attempt)
             THEN LET c2 == [c1 EXCEPT !.slept = @ + c.retry_delay,
                                       !.retry_delay = @ * 2,
                                       !.attempt = @ + 1]
                  IN  IF c2.attempt < max_retries
                      THEN c2
                      ELSE Return(c2, RetFailedAfter, msg.failed_after)
             ELSE CASE clause = "ConnectionError" -> Return(c1, RetCannotConnect, msg.cannot_connect)
                    [] OTHER -> Return(c1, RetOtherError, msg.other)

RetryLoopStep(c, b, url, msg) ==
    LET c1 == [c EXCEPT !.sent = Append(@, [url |-> url, task_id |-> c.task_id]),
                        !.hist = Append(@, b.type), !.last = b]
        clause == CatchClause(b)
    IN  IF clause = "none"
        THEN IF b.success
             THEN Return(c1, RetSuccess, msg.success)
             ELSE Return(c1, RetRejected, msg.rejected)
        ELSE IF ShouldRetry(c.attempt)
             THEN LET c2 == [c1 EXCEPT !.slept = @ + c.retry_delay,
                                       !.retry_delay = @ * 2,
                                       !.attempt = @ + 1]
                  IN  IF c2.attempt < max_retries
                      THEN c2
                      ELSE Return(c2, RetFailedAfter, msg.failed_after)
             ELSE CASE clause = "ConnectionError" -> Return(c1, RetCannotConnect, msg.cannot_connect)
                    [] clause = "Timeout" -> Return(c1, RetTimeout, msg.timeout)
                    [] OTHER -> Return(c1, RetOtherError, msg.other)

DispatchStoreWritesOnSuccess(c) ==
    IF c.pc = "done" /\ c.retAt = RetSuccess
    THEN <<[task_id |-> c.task_id, status |-> "review"]>>
    ELSE <<>>

\* the status updates the dispatch functions issue to the task table when an
\* attempt has been handled: neither function holds a store call on any path
DispatchStoreWrites(c) == <<>>

RECURSIVE ApplyWrites(_, _)
ApplyWrites(tbl, writes) ==
    IF writes = <<>> THEN tbl
    ELSE ApplyWrites([tbl EXCEPT ![Head(writes).task_id].status = Head(writes).status],
                     Tail(writes))

-----------------------------------------------------------------------------
(* multi_agent_tools.py: execute_with_specialist_agent                      *)

SpecialistMessages(agent_key, task_id, b) ==
    LET info == AgentInfo(agent_key)
    IN  [success |->
            MojiCheck \o " " \o info.name \o " completed Task #" \o ToString(task_id)
            \o "!\n\n" \o "Specialty: " \o info.specialty \o "\n\n"
            \o (IF b.files # <<>> THEN "Files created:\n" \o FileLines(b.files) ELSE ""),
         rejected |->
            "Error: " \o info.name \o " failed: "
            \o (IF b.error = None THEN "Unknown error" ELSE b.error[1]),
         cannot_connect |->
            "Cannot connect to " \o info.name \o " at " \o info.endpoint \o "\n"
            \o "Make sure the agent is running: cd dev-agents/" \o agent_key
            \o "-agent && npm run dev",
         timeout |-> "Timeout: " \o info.name \o " timed out after 5 minutes",
         other |-> "Error executing with " \o info.name \o ": " \o ErrorText(b),
         failed_after |-> "Failed after " \o ToString(max_retries) \o " attempts"]

DefaultForAnyUnknown(k) == IF InDevAgents(k) THEN k ELSE "frontend"

\* if agent_key == 'general': agent_key = 'frontend'
DefaultForGeneral(k) == IF k = "general" THEN "frontend" ELSE k

\* the call up to the retry loop, with a test that sends only todo tasks on
SpecialistEnterTodoOnly(tbl, caller, task_id, given_key) ==
    LET c0 == NewCall("specialist", caller, task_id, given_key)
        task == GetTaskById(tbl, task_id)
    IN  IF task = None
        THEN Return(c0, RetTaskNotFound,
                    MojiCross \o " Task #" \o ToString(task_id) \o " not found")
        ELSE IF task[1].status # "todo"
        THEN Return(c0, "task not todo",
                    MojiCross \o " Task #" \o ToString(task_id) \o " is " \o task[1].status)
        ELSE LET detects == Falsy(given_key)
                 found == IF detects
                          THEN detect_agent_specialty(task[1].title,
                                                      Some(OrEmpty(task[1].description)))
                          ELSE given_key[1]
                 key == DefaultForGeneral(found)
                 c1 == [c0 EXCEPT !.detected = IF detects THEN Some(found) ELSE None,
                                  !.agent_key = key]
             IN  IF ~InDevAgents(key)
                 THEN Return(c1, RetUnknownAgent, MojiCross \o " Unknown agent: " \o key)
                 ELSE c1

\* lines 85-106: the call up to the retry loop
SpecialistEnter(tbl, caller, task_id, given_key) ==
    LET c0 == NewCall("specialist", caller, task_id, given_key)
        task == GetTaskById(tbl, task_id)
    IN  IF task = None
        THEN Return(c0, RetTaskNotFound,
                    MojiCross \o " Task #" \o ToString(task_id) \o " not found")
        ELSE LET detects == Falsy(given_key)
                 found == IF detects
                          THEN detect_agent_specialty(task[1].title,
                                                      Some(OrEmpty(task[1].description)))
                          ELSE given_key[1]
                 key == DefaultForGeneral(found)
                 c1 == [c0 EXCEPT !.detected = IF detects THEN Some(found) ELSE None,
                                  !.agent_key = key]
             IN  IF ~InDevAgents(key)
                 THEN Return(c1, RetUnknownAgent, MojiCross \o " Unknown agent: " \o key)
                 ELSE c1

\* the agent_key arguments a caller may pass
AgentKeyInputs ==
    {None, Some(""), Some("general"), Some("testing")}
    \cup {Some(AgentKeys[i]) : i \in 1..Len(AgentKeys)}

NoCallRunning == call.pc = "idle"
NoBatchRunning == batch.pc = "idle"

\* the chat loop calls execute_with_specialist_agent(task_id, agent_key)
ExecuteWithSpecialistAgent(task_id, given_key) ==
    /\ NoCallRunning /\ NoBatchRunning
    /\ \E dbOK \in BOOLEAN :
          call' = IF dbOK
                  THEN SpecialistEnter(tasks, "chat", task_id, given_key)
                  ELSE [NewCall("specialist", "chat", task_id, given_key)
                            EXCEPT !.pc = "raised"]
    /\ UNCHANGED <<tasks, batch, cls, ext>>

\* one attempt of the running execute_with_specialist_agent call
SpecialistAttempt(b) ==
    /\ call.pc = "attempt" /\ call.fn = "specialist"
    /\ LET c == RetryLoopStep(call, b,
                              AgentInfo(call.agent_key).endpoint \o "/execute-task",
                              SpecialistMessages(call.agent_key, call.task_id, b))
       IN  /\ call' = [c EXCEPT !.writes = @ \o DispatchStoreWrites(c)]
           /\ tasks' = ApplyWrites(tasks, DispatchStoreWrites(c))
    /\ UNCHANGED <<batch, cls, ext>>

-----------------------------------------------------------------------------
(* dev_agent_tools.py: execute_task_with_dev_agent                          *)

DEV_AGENT_ENDPOINT == "http://localhost:3001"

DevMessages(task_id, b) ==
    [success |->
        CheckMark \o " Dev Agent completed Task #" \o ToString(task_id) \o "!\n\n"
        \o "Task executed successfully"
        \o (IF b.files # <<>> THEN "\n\nFiles created:\n" \o FileLines(b.files) ELSE "")
        \o "\nCode location: workspaces/[project-name]/"
        \o "\nTask status updated to 'review'",
     rejected |->
        "Dev Agent failed to execute Task #" \o ToString(task_id) \o "\n\nError: "
        \o (IF b.error = None THEN "Unknown error" ELSE b.error[1]),
     cannot_connect |->
        "Cannot connect to Dev Agent Service\n\n"
        \o "The Dev Agent service is not running. Please ensure it's started:\n"
        \o "  cd dev-agent-service\n" \o "  npm run dev",
     timeout |->
        "Task #" \o ToString(task_id) \o " execution timeout\n\n"
        \o "The Dev Agent is still working on it. This usually means the task is complex.\n"
        \o "Check the dev-agent-service terminal for progress.",
     other |-> "Error calling Dev Agent: " \o ErrorText(b),
     failed_after |-> "Failed after " \o ToString(max_retries) \o " attempts"]

\* the chat loop calls execute_task_with_dev_agent(task_id)
ExecuteTaskWithDevAgent(task_id) ==
    /\ NoCallRunning /\ NoBatchRunning
    /\ call' = NewCall("dev", "chat", task_id, None)
    /\ UNCHANGED <<tasks, batch, cls, ext>>

\* one attempt of the running execute_task_with_dev_agent call
DevAttempt(b) ==
    /\ call.pc = "attempt" /\ call.fn = "dev"
    /\ LET c == RetryLoopStep(call, b, DEV_AGENT_ENDPOINT \o "/execute-task",
                              DevMessages(call.task_id, b))
       IN  /\ call' = [c EXCEPT !.writes = @ \o DispatchStoreWrites(c)]
           /\ tasks' = ApplyWrites(tasks, DispatchStoreWrites(c))
    /\ UNCHANGED <<batch, cls, ext>>

-----------------------------------------------------------------------------
(* proactive_tools.py: auto_assign_task                                     *)

architecture_keywords == <<"review code", "architecture", "design plan",
                           "evaluate architecture", "refactor strategy",
                           "code review", "technical design">>

\* combined == kw for some keyword, in place of kw in combined
NeedsArchitectureReviewExact(combined) ==
    \E i \in 1..Len(architecture_keywords) : combined = architecture_keywords[i]

\* any(kw in combined for kw in architecture_keywords)
NeedsArchitectureReview(combined) ==
    \E i \in 1..Len(architecture_keywords) : Contains(combined, architecture_keywords[i])

\* str(e) of an exception of the database layer
DbErrorText == "(sqlite3.OperationalError) database is locked"

\* where the database raises during one auto_assign_task call: nowhere, at
\* the lookup of auto_assign_task, or at the lookup of execute_with_specialist_agent
DbFaults == {"none", "auto_assign_task", "execute_with_specialist_agent"}

\* auto_assign_task(task_id) up to the first request: the call has returned
\* (pc = "done"), has raised (pc = "raised") or is in the retry loop of
\* execute_with_specialist_agent, whose result it returns as it is
AutoAssignEnter(tbl, caller, task_id, fault) ==
    LET c0 == NewCall("auto_assign_task", caller, task_id, None)
        task == QueryTaskFirst(tbl, task_id)
    IN  IF fault = "auto_assign_task"
        THEN [c0 EXCEPT !.pc = "raised", !.ret = DbErrorText]
        ELSE IF task = None
        THEN Return(c0, RetAutoNotFound,
                    CrossMark \o " Task #" \o ToString(task_id) \o " not found")
        ELSE IF NeedsArchitectureReview(Combined(task[1].title, task[1].description))
        THEN Return(c0, RetLeadDev,
                    Target \o " Task #" \o ToString(task_id)
                    \o " requires Lead Dev Agent (architecture/review)\n"
                    \o "Task: " \o task[1].title \o "\n"
                    \o "This task needs human expertise for architectural decisions.")
        ELSE IF fault = "execute_with_specialist_agent"
        THEN [NewCall("specialist", caller, task_id, None)
                  EXCEPT !.pc = "raised", !.ret = DbErrorText]
        ELSE SpecialistEnter(tbl, caller, task_id, None)

-----------------------------------------------------------------------------
(* proactive_tools.py: batch_assign_tasks                                   *)

IdleBatch ==
    [pc |-> "idle", task_ids |-> <<>>, i |-> 1, results |-> <<>>,
     successful |-> 0, failed |-> 0, returns |-> <<>>, ret |-> ""]

\* if "<check mark>" in result or "<direct hit>" in result
CountsAsAssigned(result) == Contains(result, CheckMark) \/ Contains(result, Target)

BatchOnExceptionUncaught(bt, task_id, c) == [bt EXCEPT !.pc = "raised", !.ret = c.ret]

\* what the loop body does with a call of auto_assign_task that raised:
\* except Exception as e: failed += 1, one result line, and the loop goes on
BatchOnException(bt, task_id, c) ==
    [bt EXCEPT !.failed = @ + 1,
               !.results = Append(@, CrossMark \o " Task #" \o ToString(task_id)
                                     \o " error: " \o Prefix(c.ret, 50))]

\* what the loop body does with the value auto_assign_task returned
BatchOnResult(bt, task_id, c) ==
    IF CountsAsAssigned(c.ret)
    THEN [bt EXCEPT !.successful = @ + 1,
                    !.results = Append(@, CheckMark \o " Task #" \o ToString(task_id)
                                          \o " assigned")]
    ELSE [bt EXCEPT !.failed = @ + 1,
                    !.results = Append(@, CrossMark \o " Task #" \o ToString(task_id)
                                          \o " failed: " \o Prefix(c.ret, 50))]

\* lines 151-160: the report
BatchSummary(bt) ==
    Package \o " **Batch Assignment Complete**\n\n"
    \o "Success: " \o ToString(bt.successful) \o "/" \o ToString(Len(bt.task_ids))
    \o " tasks assigned\n"
    \o (IF bt.failed > 0 THEN "Failed: " \o ToString(bt.failed) \o "\n" ELSE "")
    \o "\n**Details:**\n" \o JoinLines(bt.results)

\* the finished call c of auto_assign_task for task_ids[i] is taken into the
\* tallies; returns keeps, per list position, what that call did
BatchTake(bt, c) ==
    LET task_id == bt.task_ids[bt.i]
        b1 == IF c.pc = "raised" THEN BatchOnException(bt, task_id, c)
              ELSE BatchOnResult(bt, task_id, c)
        b2 == [b1 EXCEPT !.i = @ + 1,
                         !.returns = Append(@, [task_id |-> c.task_id,
                                                raised |-> c.pc = "raised",
                                                retAt |-> c.retAt,
                                                ret |-> c.ret,
                                                requests |-> Len(c.sent),
                                                agent_key |-> c.agent_key,
                                                last |-> IF c.hist = <<>> THEN ""
                                                         ELSE c.hist[Len(c.hist)]])]
    IN  IF b1.pc = "raised" THEN b1
        ELSE IF b2.i > Len(b2.task_ids)
        THEN [b2 EXCEPT !.pc = "done", !.ret = BatchSummary(b2)]
        ELSE [b2 EXCEPT !.pc = "loop"]

\* the task_ids lists a caller may pass
RECURSIVE IdLists(_)
IdLists(n) ==
    IF n = 0 THEN {<<>>}
    ELSE LET shorter == IdLists(n - 1)
         IN  shorter \cup {Append(l, t) : l \in shorter, t \in RequestedIds}

\* the chat loop calls batch_assign_tasks(task_ids)
BatchAssignTasks(task_ids) ==
    /\ NoCallRunning /\ batch.pc = "idle" /\ dist.pc = "idle"
    /\ batch' = IF task_ids = <<>>
                THEN [IdleBatch EXCEPT !.pc = "done",
                                       !.ret = CrossMark \o " No task IDs provided"]
                ELSE [IdleBatch EXCEPT !.pc = "loop", !.task_ids = task_ids]
    /\ UNCHANGED <<tasks, call, cls, ext>>

\* the list turned round
Reversed(task_ids) == [k \in 1..Len(task_ids) |-> task_ids[Len(task_ids) + 1 - k]]

\* for task_id in task_ids: the order in which the loop takes the ids
LoopOrder(task_ids) == task_ids

\* the loop body calls auto_assign_task(task_ids[i]); a call that needs no
\* request is taken into the tallies at once
BatchCallAutoAssign(fault) ==
    /\ batch.pc = "loop" /\ call.pc = "idle"
    /\ LET c == AutoAssignEnter(tasks, "batch", LoopOrder(batch.task_ids)[batch.i], fault)
       IN  IF c.pc = "attempt"
           THEN /\ call' = c
                /\ batch' = [batch EXCEPT !.pc = "waiting"]
           ELSE /\ call' = IdleCall
                /\ batch' = BatchTake(batch, c)
    /\ UNCHANGED <<tasks, cls, ext>>

\* execute_with_specialist_agent has returned to the loop body
BatchCollect ==
    /\ batch.pc = "waiting" /\ call.pc = "done" /\ call.caller = "batch"
    /\ call' = IdleCall
    /\ batch' = BatchTake(batch, call)
    /\ UNCHANGED <<tasks, cls, ext>>

\* tool_results.append(result) for the batch report
BatchReturn ==
    /\ batch.pc \in {"done", "raised"} /\ call.pc = "idle"
    /\ batch' = IdleBatch
    /\ UNCHANGED <<tasks, call, cls, ext>>

-----------------------------------------------------------------------------
(* multi_agent_tools.py: distribute_tasks_intelligently                     *)

MojiTarget == "<U+011F><U+0178><U+00AF>"             \* the code points the file holds in place of the direct hit
MojiBullet == "<U+00E2><U+20AC><U+00A2>"             \* ... in place of the bullet
MojiRocket == "<U+011F><U+0178><U+0161><U+20AC>"     \* ... in place of the rocket

\* the keys of the distribution dict, in the order the report visits them
DistributionKeys == <<"frontend", "backend", "database", "general">>

\* distribution = {'frontend': [], 'backend': [], 'database': [], 'general': []}
EmptyDistribution ==
    [k \in {DistributionKeys[i] : i \in 1..Len(DistributionKeys)} |-> <<>>]

DistributionAppendUnresolvedToGeneral(distribution, tbl, task_id) ==
    LET task == GetTaskById(tbl, task_id)
    IN  IF task # None
        THEN LET agent_key == detect_agent_specialty(task[1].title,
                                                     Some(OrEmpty(task[1].description)))
             IN  [distribution EXCEPT ![agent_key] = Append(@, task_id)]
        ELSE [distribution EXCEPT !["general"] = Append(@, task_id)]

\* the body of "for task_id in task_ids": an id with a row is appended to the
\* list of its detected worker; an id without a row changes nothing
DistributionAppend(distribution, tbl, task_id) ==
    LET task == GetTaskById(tbl, task_id)
    IN  IF task # None
        THEN LET agent_key == detect_agent_specialty(task[1].title,
                                                     Some(OrEmpty(task[1].description)))
             IN  [distribution EXCEPT ![agent_key] = Append(@, task_id)]
        ELSE distribution

\* lines 281-287: the loop over task_ids
RECURSIVE Distribute(_, _, _)
Distribute(distribution, tbl, task_ids) ==
    IF task_ids = <<>> THEN distribution
    ELSE Distribute(DistributionAppend(distribution, tbl, Head(task_ids)),
                    tbl, Tail(task_ids))

\* for task_id in task_list: report += f"  <bullet> Task #{task_id}\n"
RECURSIVE TaskLines(_)
TaskLines(task_list) ==
    IF task_list = <<>> THEN ""
    ELSE "  " \o MojiBullet \o " Task #" \o ToString(Head(task_list)) \o "\n"
         \o TaskLines(Tail(task_list))

\* DEV_AGENTS.get(agent_key, {}).get('name', 'General Agent')
AgentNameOrGeneral(agent_key) ==
    IF InDevAgents(agent_key) THEN AgentInfo(agent_key).name ELSE "General Agent"

\* lines 292-299: one section of the report per key with a non-empty list
RECURSIVE DistributionSections(_, _)
DistributionSections(keys, distribution) ==
    IF keys = <<>> THEN ""
    ELSE LET task_list == distribution[Head(keys)]
         IN  (IF task_list # <<>>
              THEN "**" \o AgentNameOrGeneral(Head(keys)) \o "** ("
                   \o ToString(Len(task_list)) \o " tasks):\n"
                   \o TaskLines(task_list) \o "\n"
              ELSE "")
             \o DistributionSections(Tail(keys), distribution)

\* sum(len(tasks) for tasks in distribution.values())
RECURSIVE TotalTasks(_, _)
TotalTasks(keys, distribution) ==
    IF keys = <<>> THEN 0
    ELSE Len(distribution[Head(keys)]) + TotalTasks(Tail(keys), distribution)

\* lines 289-305: the report
DistributionReport(distribution) ==
    MojiTarget \o " **Intelligent Task Distribution:**\n\n"
    \o DistributionSections(DistributionKeys, distribution)
    \o "**Total:** " \o ToString(TotalTasks(DistributionKeys, distribution))
    \o " tasks distributed across "
    \o ToString(Cardinality({k \in DOMAIN distribution : distribution[k] # <<>>}))
    \o " agents\n\n"
    \o "Ready to execute in parallel! " \o MojiRocket

IdleDist == [pc |-> "idle", task_ids |-> <<>>, distribution |-> EmptyDistribution, ret |-> ""]

\* the chat loop calls distribute_tasks_intelligently(task_ids)
DistributeTasksIntelligently(task_ids) ==
    /\ NoCallRunning /\ NoBatchRunning /\ dist.pc = "idle"
    /\ dist' = IF task_ids = <<>>
               THEN [IdleDist EXCEPT !.pc = "done",
                                     !.ret = MojiCross \o " No task IDs provided"]
               ELSE LET distribution == Distribute(EmptyDistribution, tasks, task_ids)
                    IN  [pc |-> "done", task_ids |-> task_ids,
                         distribution |-> distribution,
                         ret |-> DistributionReport(distribution)]
    /\ UNCHANGED <<core, regVars, monVars>>

\* tool_results.append(result) for the distribution report
DistributeReturn ==
    /\ dist.pc = "done"
    /\ dist' = IdleDist
    /\ UNCHANGED <<core, regVars, monVars>>

-----------------------------------------------------------------------------
(* agent_management_tools.py: the persisted worker file and get_all_agents  *)

Digits == "0123456789"

\* int(c) for one decimal digit
DigitValue(c) == (CHOOSE i \in 1..Len(Digits) : SubSeq(Digits, i, i) = c) - 1

\* int(s) for a string of decimal digits
RECURSIVE ParseInt(_)
ParseInt(s) ==
    IF Len(s) = 0 THEN 0
    ELSE ParseInt(SubSeq(s, 1, Len(s) - 1)) * 10 + DigitValue(SubSeq(s, Len(s), Len(s)))

\* s.split(":")[-1]
AfterLastColon(s) ==
    LET colons == {i \in 1..Len(s) : SubSeq(s, i, i) = ":"}
        last == IF colons = {} THEN 0
                ELSE CHOOSE i \in colons : \A j \in colons : j <= i
    IN  SubSeq(s, last + 1, Len(s))

\* int(info["endpoint"].split(":")[-1])
PortOfEndpoint(endpoint) == ParseInt(AfterLastColon(endpoint))

\* ', '.join(words)
RECURSIVE JoinComma(_)
JoinComma(words) ==
    IF words = <<>> THEN ""
    ELSE IF Len(words) = 1 THEN words[1]
    ELSE words[1] \o ", " \o JoinComma(Tail(words))

\* words[:n]
FirstN(words, n) == SubSeq(words, 1, Min(n, Len(words)))

\* agent_config.json before the first registration: the file does not exist
NoConfigFile == [exists |-> FALSE, agents |-> <<>>]

\* key in agents, for the dict agent_config.json holds
InConfig(agents, key) == \E i \in 1..Len(agents) : agents[i].key = key

\* the entries of get_all_agents for the static table
StaticAgentEntries ==
    [i \in 1..Len(DEV_AGENTS) |->
        [key |-> DEV_AGENTS[i].key, name |-> DEV_AGENTS[i].name,
         port |-> PortOfEndpoint(DEV_AGENTS[i].endpoint),
         specialty |-> DEV_AGENTS[i].specialty, keywords |-> DEV_AGENTS[i].keywords]]

\* the entries of get_all_agents for the persisted file: a key of the static
\* table is skipped
RECURSIVE DynamicAgentEntries(_)
DynamicAgentEntries(agents) ==
    IF agents = <<>> THEN <<>>
    ELSE LET info == Head(agents)
         IN  (IF ~InDevAgents(info.key)
              THEN <<[key |-> info.key, name |-> info.name,
                      port |-> PortOfEndpoint(info.endpoint),
                      specialty |-> info.specialty, keywords |-> info.keywords]>>
              ELSE <<>>)
             \o DynamicAgentEntries(Tail(agents))

GetAllAgentsStaticOnly(cfg) == StaticAgentEntries

\* get_all_agents(), reading the file cfg
get_all_agents(cfg) ==
    StaticAgentEntries \o (IF cfg.exists THEN DynamicAgentEntries(cfg.agents) ELSE <<>>)

\* agents[specialty.lower()] = {...}: an entry of the same key is replaced
\* where it stands, a new key goes last
ConfigAssign(agents, entry) ==
    IF InConfig(agents, entry.key)
    THEN [i \in 1..Len(agents) |-> IF agents[i].key = entry.key THEN entry ELSE agents[i]]
    ELSE Append(agents, entry)

-----------------------------------------------------------------------------
(* agent_management_tools.py: create_new_agent                              *)

\* the callers of create_new_agent
Callers == {"caller 1", "caller 2"}
FirstCaller == "caller 1"

\* the workers a caller asks for
WorkerRequests == <<
    [agent_name |-> "Testing Agent", specialty |-> "testing",
     keywords |-> <<"pytest", "unittest", "jest", "qa", "e2e", "coverage">>,
     description |-> "Automated testing expert"],
    [agent_name |-> "QA Agent", specialty |-> "Testing",
     keywords |-> <<"qa">>,
     description |-> "Quality assurance"],
    [agent_name |-> "DevOps Agent", specialty |-> "devops",
     keywords |-> <<"docker", "kubernetes">>,
     description |-> "DevOps specialist"],
    [agent_name |-> "Backend Two", specialty |-> "Backend",
     keywords |-> <<"api">>,
     description |-> "Second backend worker"]
>>

\* the port arguments: below the range, held by a static worker, three free
\* ports, the last of them the last of the range, and above the range
PortInputs == {3000, 3003, 3004, 3005, 3010, 3011}

\* the places create_new_agent returns from
RetPortRange == "port out of range"          \* agent_management_tools.py:34
RetPortInUse == "port in use"                \* agent_management_tools.py:40
RetApproval == "approval request"            \* agent_management_tools.py:44
RetDirExists == "directory exists"           \* agent_management_tools.py:80
RetTemplateMissing == "template missing"     \* agent_management_tools.py:85
RetCreated == "created"                      \* agent_management_tools.py:169
RetCreateError == "error creating agent"     \* agent_management_tools.py:201

\* the stage of a worker directory under dev-agents is "shipped" for a worker
\* of the repository and, for a new one, how far its scaffolding came:
\* "partial", "copied", "package.json", ".env.example", "agent.ts"

IdleCreate ==
    [pc |-> "idle", agent_name |-> "", specialty |-> "", port |-> 0, keywords |-> <<>>,
     description |-> "", request_approval |-> TRUE, agents |-> <<>>,
     retAt |-> "", ret |-> ""]

CreateReturn(c, at, text) == [c EXCEPT !.pc = "done", !.retAt = at, !.ret = text]

\* f"{specialty.lower()}-agent"
AgentDirName(specialty) == Lower(specialty) \o "-agent"

\* if port < 3001 or port > 3010
PortOutOfRange(port) == port < 3001 \/ port > 3010

PortHolderAmongStaticOnly(existing_agents, port) ==
    LET holders == {i \in 1..Len(existing_agents) :
                       existing_agents[i].port = port /\ i <= Len(DEV_AGENTS)}
    IN  IF holders = {} THEN 0 ELSE CHOOSE i \in holders : \A j \in holders : i <= j

\* lines 38-40: the first agent of the list that holds the port, 0 for none
PortHolder(existing_agents, port) ==
    LET holders == {i \in 1..Len(existing_agents) : existing_agents[i].port = port}
    IN  IF holders = {} THEN 0 ELSE CHOOSE i \in holders : \A j \in holders : i <= j

\* lines 44-70: the approval request
ApprovalText(c) ==
    "\n**New Agent Creation Request**\n\n"
    \o "Master Christian, I'd like to create a new specialized agent:\n\n"
    \o "**Agent Details:**\n"
    \o "- Name: " \o c.agent_name \o "\n"
    \o "- Specialty: " \o c.specialty \o "\n"
    \o "- Port: " \o ToString(c.port) \o "\n"
    \o "- Keywords: " \o JoinComma(c.keywords) \o "\n"
    \o "- Description: " \o c.description \o "\n\n"
    \o "**What it will do:**\n"
    \o "This agent will handle tasks containing keywords: "
    \o JoinComma(FirstN(c.keywords, 5)) \o "\n\n"
    \o "**Benefits:**\n"
    \o "- More specialized expertise for " \o c.specialty \o " tasks\n"
    \o "- Parallel execution with other agents\n"
    \o "- Better code quality for this domain\n\n"
    \o "**Approval needed:**\n"
    \o "Please confirm if I should create this agent by saying:\n"
    \o "\"Yes, create the " \o c.agent_name \o "\"\n\n"
    \o "Or decline with:\n"
    \o "\"No, don't create it\"\n"

\* three grave accents, one stand-in per code point
Fence == "<U+0060><U+0060><U+0060>"

\* lines 169-198: the confirmation
CreatedText(c) ==
    LET agent_dir_name == AgentDirName(c.specialty)
    IN  "\n" \o CheckMark \o " **" \o c.agent_name \o " Created Successfully!**\n\n"
        \o "**Location:** dev-agents/" \o agent_dir_name \o "/\n"
        \o "**Port:** " \o ToString(c.port) \o "\n"
        \o "**Specialty:** " \o c.specialty \o "\n\n"
        \o "**Next Steps:**\n"
        \o "1. Copy .env file:\n   " \o Fence \o "\n   cp dev-agents/" \o agent_dir_name
        \o "/.env.example dev-agents/" \o agent_dir_name \o "/.env\n   " \o Fence \o "\n\n"
        \o "2. Add your OpenAI API key to the .env file\n\n"
        \o "3. Install dependencies:\n   " \o Fence \o "\n   cd dev-agents/" \o agent_dir_name
        \o "\n   npm install\n   " \o Fence \o "\n\n"
        \o "4. Start the agent:\n   " \o Fence \o "\n   npm run dev\n   " \o Fence \o "\n\n"
        \o "Or restart the orchestrator to include this new agent automatically!\n\n"
        \o "The agent is now registered and will handle tasks with keywords: "
        \o JoinComma(FirstN(c.keywords, 5)) \o "\n"

\* except Exception as e: return f"Error creating agent: {str(e)}"
CreateErrorText(what) == "Error creating agent: " \o what

ProposeProceeds(c) == [c EXCEPT !.pc = "dir check"]

\* what create_new_agent does once the port is valid and free and approval
\* is requested: it returns the approval request
Propose(c) == CreateReturn(c, RetApproval, ApprovalText(c))

\* lines 32-70: the call up to the try block, reading the file cfg once
CreateEnter(cfg, w, port, request_approval) ==
    LET c == [IdleCreate EXCEPT !.agent_name = w.agent_name, !.specialty = w.specialty,
                                !.port = port, !.keywords = w.keywords,
                                !.description = w.description,
                                !.request_approval = request_approval]
        existing_agents == get_all_agents(cfg)
        holder == PortHolder(existing_agents, port)
    IN  IF PortOutOfRange(port)
        THEN CreateReturn(c, RetPortRange,
                          "Error: Port must be between 3001-3010. Got: " \o ToString(port))
        ELSE IF holder # 0
        THEN CreateReturn(c, RetPortInUse,
                          "Error: Port " \o ToString(port) \o " already in use by "
                          \o existing_agents[holder].name)
        ELSE IF request_approval
        THEN Propose(c)
        ELSE [c EXCEPT !.pc = "dir check"]

\* the chat loop or another caller calls create_new_agent(...)
CreateNewAgent(p, w, port, request_approval) ==
    /\ reg[p].pc = "idle"
    /\ reg' = [reg EXCEPT ![p] = CreateEnter(config, w, port, request_approval)]
    /\ UNCHANGED <<core, dist, config, dirs, committed, monVars>>

\* lines 74-85: agent_dir.exists() and template_dir.exists()
DirCheck(p) ==
    /\ reg[p].pc = "dir check"
    /\ LET agent_dir_name == AgentDirName(reg[p].specialty)
       IN  reg' = [reg EXCEPT ![p] =
                IF agent_dir_name \in DOMAIN dirs
                THEN CreateReturn(@, RetDirExists,
                                  "Error: Agent directory " \o agent_dir_name
                                  \o " already exists")
                ELSE IF "frontend-agent" \notin DOMAIN dirs
                THEN CreateReturn(@, RetTemplateMissing,
                                  "Error: Frontend agent template not found")
                ELSE [@ EXCEPT !.pc = "copytree"]]
    /\ UNCHANGED <<core, dist, config, dirs, committed, monVars>>

\* the directory dev-agents with one more entry, or one entry at a later stage
DirAt(d, name, stage) ==
    [n \in DOMAIN d \cup {name} |-> IF n = name THEN stage ELSE d[n]]

\* the ways shutil.copytree ends: the copy is there, it raised before the
\* target was made, or it raised with the target made and part of it copied
CopyOutcomes == {"copied", "raised, nothing made", "raised, part copied"}

\* line 88: shutil.copytree(template_dir, agent_dir), which raises when the
\* target is there already
CopyTemplate(p, outcome) ==
    /\ reg[p].pc = "copytree"
    /\ LET agent_dir_name == AgentDirName(reg[p].specialty)
       IN  IF agent_dir_name \in DOMAIN dirs \/ "frontend-agent" \notin DOMAIN dirs
           THEN /\ outcome = "raised, nothing made"
                /\ reg' = [reg EXCEPT ![p] =
                              CreateReturn(@, RetCreateError,
                                           CreateErrorText("[Errno 17] File exists"))]
                /\ UNCHANGED dirs
           ELSE CASE outcome = "copied" ->
                       /\ reg' = [reg EXCEPT ![p].pc = "package.json"]
                       /\ dirs' = DirAt(dirs, agent_dir_name, "copied")
                  [] outcome = "raised, nothing made" ->
                       /\ reg' = [reg EXCEPT ![p] =
                                     CreateReturn(@, RetCreateError,
                                                  CreateErrorText("[Errno 13] Permission denied"))]
                       /\ UNCHANGED dirs
                  [] OTHER ->
                       /\ reg' = [reg EXCEPT ![p] =
                                     CreateReturn(@, RetCreateError,
                                                  CreateErrorText("[Errno 28] No space left on device"))]
                       /\ dirs' = DirAt(dirs, agent_dir_name, "partial")
    /\ UNCHANGED <<core, dist, config, committed, monVars>>

\* the scaffolding steps after the copy, in order, and the step after the last
ScaffoldSteps == <<"package.json", ".env.example", "agent.ts">>

RegisterBeforeAgentTs(step) ==
    CASE step = "package.json" -> ".env.example"
      [] step = ".env.example" -> "register"
      [] OTHER -> "register"

NextScaffoldStep(step) ==
    CASE step = "package.json" -> ".env.example"
      [] step = ".env.example" -> "agent.ts"
      [] OTHER -> "register"

\* the scaffolding step with an except clause that removes the new directory
ScaffoldStepRollingBack(p, ok) ==
    /\ reg[p].pc \in {ScaffoldSteps[i] : i \in 1..Len(ScaffoldSteps)}
    /\ LET agent_dir_name == AgentDirName(reg[p].specialty)
           step == reg[p].pc
       IN  IF ok
           THEN /\ reg' = [reg EXCEPT ![p].pc = NextScaffoldStep(step)]
                /\ dirs' = DirAt(dirs, agent_dir_name, step)
           ELSE /\ reg' = [reg EXCEPT ![p] =
                              CreateReturn(@, RetCreateError,
                                           CreateErrorText("cannot rewrite " \o step))]
                /\ dirs' = [n \in DOMAIN dirs \ {agent_dir_name} |-> dirs[n]]
    /\ UNCHANGED <<core, dist, config, committed, monVars>>

\* lines 91-99, 127-129 and 132-164: one file of the new directory is
\* rewritten, or the step raises and the except clause returns the error
ScaffoldStep(p, ok) ==
    /\ reg[p].pc \in {ScaffoldSteps[i] : i \in 1..Len(ScaffoldSteps)}
    /\ LET agent_dir_name == AgentDirName(reg[p].specialty)
           step == reg[p].pc
       IN  IF ok
           THEN /\ reg' = [reg EXCEPT ![p].pc = NextScaffoldStep(step)]
                /\ dirs' = DirAt(dirs, agent_dir_name, step)
           ELSE /\ reg' = [reg EXCEPT ![p] =
                              CreateReturn(@, RetCreateError,
                                           CreateErrorText("cannot rewrite " \o step))]
                /\ UNCHANGED dirs
    /\ UNCHANGED <<core, dist, config, committed, monVars>>

\* register_agent_in_config, lines 216-222: the file is read, or the read raises
RegisterRead(p, ok) ==
    /\ reg[p].pc = "register"
    /\ reg' = [reg EXCEPT ![p] =
                  IF ok
                  THEN [@ EXCEPT !.pc = "register write",
                                 !.agents = IF config.exists THEN config.agents ELSE <<>>]
                  ELSE CreateReturn(@, RetCreateError,
                                    CreateErrorText("[Errno 13] Permission denied"))]
    /\ UNCHANGED <<core, dist, config, dirs, committed, monVars>>

\* lines 224-229: the entry written for the new worker
ConfigEntry(c) ==
    [key |-> Lower(c.specialty),
     endpoint |-> "http://localhost:" \o ToString(c.port),
     name |-> c.agent_name,
     specialty |-> c.description,
     keywords |-> c.keywords]

\* register_agent_in_config, lines 224-232: the dict read before, with the new
\* entry, replaces the file; create_new_agent then returns the confirmation
RegisterWrite(p) ==
    /\ reg[p].pc = "register write"
    /\ config' = [exists |-> TRUE, agents |-> ConfigAssign(reg[p].agents, ConfigEntry(reg[p]))]
    /\ reg' = [reg EXCEPT ![p] = CreateReturn(@, RetCreated, CreatedText(@))]
    /\ committed' = committed \cup {[key |-> Lower(reg[p].specialty), port |-> reg[p].port]}
    /\ UNCHANGED <<core, dist, dirs, monVars>>

\* the caller takes the result of create_new_agent
CreateTaken(p) ==
    /\ reg[p].pc = "done"
    /\ reg' = [reg EXCEPT ![p] = IdleCreate]
    /\ UNCHANGED <<core, dist, config, dirs, committed, monVars>>


\* the worker directories the repository ships
ShippedDirs ==
    [n \in {AgentDirName(DEV_AGENTS[i].key) : i \in 1..Len(DEV_AGENTS)} |-> "shipped"]

\* the registry when the process starts: no file, the shipped directories, no
\* call of create_new_agent running
RegistryAtStart ==
    /\ config = NoConfigFile
    /\ dirs = ShippedDirs
    /\ reg = [p \in Callers |-> IdleCreate]
    /\ committed = {}

\* no scan is running (scheduler.py, proactive_task_monitoring)
IdleScan ==
    [pc |-> "idle", job |-> "", projects |-> <<>>, p |-> 1, warnings |-> "",
     picked |-> <<>>, k |-> 1, msg |-> <<>>, aborted |-> FALSE]

\* the scheduler when the process starts
MonitorAtStart ==
    /\ mon = IdleScan
    /\ sink = <<>>
    /\ dispatched = <<>>
    /\ past = [requested |-> {}, alerted |-> {}]

-----------------------------------------------------------------------------
(* pm_agent.py: the chat loop takes the result of the tool call             *)

\* tool_results.append(result), or the exception leaves the tool call
ChatReturn ==
    /\ call.pc \in {"done", "raised"} /\ call.caller = "chat"
    /\ call' = IdleCall
    /\ UNCHANGED <<tasks, batch, cls, ext>>

-----------------------------------------------------------------------------
(* task_tools.py: update_task_status_tool                                   *)

\* the chat loop calls update_task_status_tool(task_id, new_status)
UpdateTaskStatus(task_id, new_status) ==
    /\ NoCallRunning /\ NoBatchRunning
    /\ IF QueryTaskFirst(tasks, task_id) = None
       THEN UNCHANGED tasks
       ELSE tasks' = [tasks EXCEPT ![task_id].status = new_status]
    /\ UNCHANGED <<call, batch, cls, ext>>

-----------------------------------------------------------------------------
(* Free text given to the classifier                                        *)

Words == {"Build", "REST", "API", "ui", "form", "Database", "SQL", "index",
          "styling", "SCSS", "server", "logo"}

RECURSIVE TextsOfWords(_)
TextsOfWords(n) ==
    IF n = 0 THEN {""}
    ELSE LET shorter == TextsOfWords(n - 1)
         IN  shorter \cup {IF t = "" THEN w ELSE t \o " " \o w : t \in shorter, w \in Words}

Titles == TextsOfWords(MaxTitleWords) \ {""}
Descriptions == {None, Some("")} \cup {Some(w) : w \in Words}

ClsIdle == [pc |-> "idle"]

-----------------------------------------------------------------------------
(* The classifier on its own                                                *)

InitClassify ==
    /\ tasks = <<>>
    /\ call = IdleCall
    /\ batch = IdleBatch
    /\ dist = IdleDist
    /\ RegistryAtStart
    /\ MonitorAtStart
    /\ \E t \in Titles, d \in Descriptions :
          cls = [pc |-> "ready", title |-> t, description |-> d]

Classify ==
    /\ cls.pc = "ready"
    /\ cls' = [pc |-> "done", title |-> cls.title, description |-> cls.description,
               scores |-> Scores(Combined(cls.title, cls.description)),
               result |-> detect_agent_specialty(cls.title, cls.description)]
    /\ UNCHANGED <<tasks, call, batch, ext>>

NextClassify == Classify

SpecClassify == InitClassify /\ [][NextClassify]_vars

-----------------------------------------------------------------------------
(* The chat loop: one tool call at a time                                   *)

Init ==
    /\ tasks = [i \in TaskIds |->
                  [title |-> SampleRow(i).title, description |-> SampleRow(i).description,
                   status |-> "todo"]]
    /\ call = IdleCall
    /\ batch = IdleBatch
    /\ cls = ClsIdle
    /\ dist = IdleDist
    /\ RegistryAtStart
    /\ MonitorAtStart

Next ==
    \/ \E t \in RequestedIds, k \in AgentKeyInputs : ExecuteWithSpecialistAgent(t, k)
    \/ \E b \in EndpointBehaviours : SpecialistAttempt(b)
    \/ \E t \in RequestedIds : ExecuteTaskWithDevAgent(t)
    \/ \E b \in EndpointBehaviours : DevAttempt(b)
    \/ \E t \in RequestedIds, s \in StatusInputs : UpdateTaskStatus(t, s)
    \/ ChatReturn

Spec == Init /\ [][Next]_vars

-----------------------------------------------------------------------------
(* The chat loop running batch_assign_tasks                                 *)

\* one endpoint behaviour of each kind the retry loop tells apart
BatchEndpointBehaviours ==
    {b \in EndpointBehaviours :
        \/ b.type \in {"ConnectionError", "ReadTimeout", "NotJSON"}
        \/ b.type = "Reply" /\ b.files = <<>> /\ (b.success \/ b.error # None)}

NextBatch ==
    \/ \E l \in IdLists(MaxBatch) : BatchAssignTasks(l)
    \/ \E f \in DbFaults : BatchCallAutoAssign(f)
    \/ \E b \in BatchEndpointBehaviours : SpecialistAttempt(b)
    \/ BatchCollect
    \/ BatchReturn
    \/ \E l \in IdLists(MaxBatch) : DistributeTasksIntelligently(l)
    \/ DistributeReturn

SpecBatch == Init /\ [][NextBatch]_vars

-----------------------------------------------------------------------------
(* One caller of create_new_agent at a time, and the dispatch of tasks      *)
(* to the workers it has created                                            *)

\* a task for a testing worker: no keyword of the static table occurs in it
RegistryRows == <<
    [title |-> "Write pytest cases", description |-> None, status |-> "todo"]
>>

\* the worker keys the dispatch is asked for once workers have been created
CreatedKeyInputs == {None, Some("testing"), Some("devops")}

\* the worker answers the one request with success
PromptSuccess == {b \in ReplyBodies : b.success /\ b.files = <<>>}

InitRegistry ==
    /\ tasks = RegistryRows
    /\ call = IdleCall
    /\ batch = IdleBatch
    /\ cls = ClsIdle
    /\ dist = IdleDist
    /\ config = NoConfigFile
    /\ \E template \in BOOLEAN :
          dirs = [n \in DOMAIN ShippedDirs \ (IF template THEN {} ELSE {"frontend-agent"})
                    |-> "shipped"]
    /\ reg = [p \in Callers |-> IdleCreate]
    /\ committed = {}
    /\ MonitorAtStart

NextRegistry ==
    \/ \E i \in 1..Len(WorkerRequests), port \in PortInputs, request_approval \in BOOLEAN :
          NoCallRunning /\ CreateNewAgent(FirstCaller, WorkerRequests[i], port, request_approval)
    \/ DirCheck(FirstCaller)
    \/ \E outcome \in CopyOutcomes : CopyTemplate(FirstCaller, outcome)
    \/ \E ok \in BOOLEAN : ScaffoldStep(FirstCaller, ok)
    \/ \E ok \in BOOLEAN : RegisterRead(FirstCaller, ok)
    \/ RegisterWrite(FirstCaller)
    \/ CreateTaken(FirstCaller)
    \/ \E t \in DOMAIN RegistryRows, k \in CreatedKeyInputs :
          reg[FirstCaller].pc = "idle" /\ ExecuteWithSpecialistAgent(t, k)
    \/ \E b \in PromptSuccess : SpecialistAttempt(b)
    \/ ChatReturn

SpecRegistry == InitRegistry /\ [][NextRegistry]_vars

-----------------------------------------------------------------------------
(* Two callers of create_new_agent(request_approval=False) at once          *)

RaceRequests == {w \in {WorkerRequests[i] : i \in 1..Len(WorkerRequests)} :
                    w.specialty \in {"testing", "devops"}}
RacePorts == {3004, 3005}

NextRegistryRace ==
    \/ \E p \in Callers, w \in RaceRequests, port \in RacePorts :
          CreateNewAgent(p, w, port, FALSE)
    \/ \E p \in Callers : DirCheck(p)
    \/ \E p \in Callers, outcome \in CopyOutcomes : CopyTemplate(p, outcome)
    \/ \E p \in Callers, ok \in BOOLEAN : ScaffoldStep(p, ok)
    \/ \E p \in Callers, ok \in BOOLEAN : RegisterRead(p, ok)
    \/ \E p \in Callers : RegisterWrite(p)
    \/ \E p \in Callers : CreateTaken(p)

SpecRegistryRace == Init /\ [][NextRegistryRace]_vars

-----------------------------------------------------------------------------
(* query_tools.py: get_project_warnings_tool                                *)

WarnSign == "<U+26A0><U+FE0F>"     \* warning sign, with its variation selector
Bullet == "<U+2022>"               \* bullet
Tick == "<U+2713>"                 \* check mark

\* the projects table: two active projects and one that is not
ProjectRows == <<
    [id |-> 1, name |-> "Website", status |-> "active", priority |-> "high"],
    [id |-> 2, name |-> "Mobile App", status |-> "active", priority |-> "medium"],
    [id |-> 3, name |-> "Archive", status |-> "on_hold", priority |-> "low"]
>>

\* session.query(Project).filter(Project.status == "active").all()
get_active_projects == SelectSeq(ProjectRows, LAMBDA p : p.status = "active")

\* get_project_by_name(session, name): the row, or None
get_project_by_name(name) ==
    LET found == SelectSeq(ProjectRows, LAMBDA p : p.name = name)
    IN  IF found = <<>> THEN None ELSE Some(found[1])

\* the ids of the rows of the table, in the order a query returns them
RowIds(tbl) == [i \in 1..Len(tbl) |-> i]

\* lines 85-93: the overdue tasks of the project
OverdueTasks(tbl, project_id, now) ==
    SelectSeq(RowIds(tbl), LAMBDA i :
        /\ tbl[i].project_id = project_id
        /\ tbl[i].due_date # None /\ tbl[i].due_date[1] < now
        /\ tbl[i].status # "done")

\* lines 102-111: the tasks of the project blocked for more than 3 days
BlockedTasks(tbl, project_id, now) ==
    SelectSeq(RowIds(tbl), LAMBDA i :
        /\ tbl[i].project_id = project_id
        /\ tbl[i].status = "blocked"
        /\ tbl[i].updated_at < now - 3)

\* lines 120-129: the unassigned high-priority todo tasks of the project
UnassignedHigh(tbl, project_id) ==
    SelectSeq(RowIds(tbl), LAMBDA i :
        /\ tbl[i].project_id = project_id
        /\ tbl[i].assigned_to = None
        /\ tbl[i].priority \in {"critical", "high"}
        /\ tbl[i].status = "todo")

\* the line of a listed task
WarningLine(tbl, id, detail) ==
    "  " \o Bullet \o " #" \o ToString(id) \o ": " \o tbl[id].title \o " (" \o detail \o ")"

\* get_project_warnings_tool(project_name), called at the time now
get_project_warnings_tool(tbl, project_name, now) ==
    LET project == get_project_by_name(project_name)
    IN  IF project = None
        THEN "Error: Project '" \o project_name \o "' not found"
        ELSE
        LET overdue_tasks == OverdueTasks(tbl, project[1].id, now)
            blocked_tasks == BlockedTasks(tbl, project[1].id, now)
            unassigned_high == UnassignedHigh(tbl, project[1].id)
            warnings ==
                (IF overdue_tasks # <<>>
                 THEN <<WarnSign \o "  " \o ToString(Len(overdue_tasks)) \o " overdue task(s):">>
                      \o [i \in 1..Len(FirstN(overdue_tasks, 5)) |->
                            WarningLine(tbl, overdue_tasks[i],
                                ToString(now - tbl[overdue_tasks[i]].due_date[1])
                                \o " days overdue")]
                 ELSE <<>>)
                \o
                (IF blocked_tasks # <<>>
                 THEN <<"\n" \o WarnSign \o "  " \o ToString(Len(blocked_tasks))
                        \o " task(s) blocked > 3 days:">>
                      \o [i \in 1..Len(FirstN(blocked_tasks, 5)) |->
                            WarningLine(tbl, blocked_tasks[i],
                                ToString(now - tbl[blocked_tasks[i]].updated_at) \o " days")]
                 ELSE <<>>)
                \o
                (IF unassigned_high # <<>>
                 THEN <<"\n" \o WarnSign \o "  " \o ToString(Len(unassigned_high))
                        \o " unassigned high-priority task(s):">>
                      \o [i \in 1..Len(FirstN(unassigned_high, 5)) |->
                            WarningLine(tbl, unassigned_high[i],
                                        tbl[unassigned_high[i]].priority)]
                 ELSE <<>>)
        IN  IF warnings = <<>>
            THEN Tick \o " No warnings for project '" \o project_name \o "'"
            ELSE JoinLines(warnings)

-----------------------------------------------------------------------------
(* database.py: get_tasks_by_project                                        *)

\* a list of task ids, latest created_at first (insertion sort)
RECURSIVE CreatedAtDesc(_, _)
CreatedAtDesc(tbl, ids) ==
    IF ids = <<>> THEN <<>>
    ELSE LET rest == CreatedAtDesc(tbl, Tail(ids))
             later == SelectSeq(rest, LAMBDA i : tbl[i].created_at > tbl[Head(ids)].created_at)
             other == SelectSeq(rest, LAMBDA i : tbl[i].created_at <= tbl[Head(ids)].created_at)
         IN  later \o <<Head(ids)>> \o other

\* get_tasks_by_project(session, project_id, status=status)
get_tasks_by_project(tbl, project_id, status) ==
    CreatedAtDesc(tbl, SelectSeq(RowIds(tbl), LAMBDA i :
        tbl[i].project_id = project_id /\ tbl[i].status = status))

-----------------------------------------------------------------------------
(* scheduler.py: AlbedoScheduler.proactive_task_monitoring                  *)

\* the time of the scan, in days
Today == 10

\* for task in tasks[:3]
TopTasksLimit == 3

\* if "Overdue" in warnings or "Blocked" in warnings
AlertsOn(warnings) == Contains(warnings, "Overdue") \/ Contains(warnings, "Blocked")

\* if "Auto-assigned" in result or "completed" in result.lower()
ReportsAssignment(result) ==
    Contains(result, "Auto-assigned") \/ Contains(Lower(result), "completed")

\* if task.priority in ["high", "critical"]
AutoAssigns(priority) == priority \in {"high", "critical"}

\* the scan moves on to the next project, or ends (session.close())
NextProject(m) ==
    IF m.p + 1 > Len(m.projects)
    THEN [m EXCEPT !.pc = "done"]
    ELSE [m EXCEPT !.pc = "project", !.p = @ + 1]

\* the scan moves on to the next of the picked tasks, or to the alert
NextTask(m) ==
    IF m.k + 1 > Len(m.picked)
    THEN [m EXCEPT !.pc = "alert"]
    ELSE [m EXCEPT !.pc = "task", !.k = @ + 1]

\* the cron trigger fires: lines 259-260
ScanStart ==
    /\ mon.pc = "idle" /\ call.pc = "idle"
    /\ mon' = IF get_active_projects = <<>>
              THEN [IdleScan EXCEPT !.pc = "done", !.job = "monitor"]
              ELSE [IdleScan EXCEPT !.pc = "project", !.job = "monitor",
                                    !.projects = get_active_projects]
    /\ UNCHANGED <<core, dist, regVars, sink, dispatched, past>>

\* lines 264-267: the warnings and the todo tasks of the project
ScanProject ==
    /\ mon.pc = "project" /\ call.pc = "idle"
    /\ LET project == mon.projects[mon.p]
           todo == get_tasks_by_project(tasks, project.id, "todo")
           m == [mon EXCEPT !.warnings = get_project_warnings_tool(tasks, project.name, Today),
                            !.picked = FirstN(todo, TopTasksLimit),
                            !.k = 1]
       IN  mon' = IF m.picked = <<>> THEN [m EXCEPT !.pc = "alert"]
                  ELSE [m EXCEPT !.pc = "task"]
    /\ UNCHANGED <<core, dist, regVars, sink, dispatched, past>>

\* what the scan does with the value auto_assign_task returned, or with the
\* exception it raised (lines 274-280): it goes on to send the result, or to
\* the next task
ScanResult(m, c) ==
    IF c.pc # "raised" /\ ReportsAssignment(c.ret)
    THEN [m EXCEPT !.pc = "send",
                   !.msg = <<[kind |-> "assignment", project |-> m.projects[m.p].name,
                              task_id |-> c.task_id,
                              text |-> "Proactive Assignment:\n\n" \o c.ret]>>]
    ELSE NextTask(m)

\* lines 270-273: a picked task of high or critical priority is given to
\* auto_assign_task; a call that needs no request is taken at once
ScanTask(fault) ==
    /\ mon.pc = "task" /\ call.pc = "idle"
    /\ LET task_id == mon.picked[mon.k]
       IN  IF AutoAssigns(tasks[task_id].priority)
           THEN LET c == AutoAssignEnter(tasks, "scan", task_id, fault)
                IN  IF c.pc = "attempt"
                    THEN /\ call' = c
                         /\ mon' = [mon EXCEPT !.pc = "waiting"]
                    ELSE /\ call' = IdleCall
                         /\ mon' = ScanResult(mon, c)
           ELSE /\ fault = "none"
                /\ mon' = NextTask(mon)
                /\ UNCHANGED call
    /\ UNCHANGED <<tasks, batch, cls, dist, regVars, sink, dispatched, past>>

\* execute_with_specialist_agent has returned to the scan
ScanCollect ==
    /\ mon.pc = "waiting" /\ call.pc = "done" /\ call.caller = "scan"
    /\ call' = IdleCall
    /\ mon' = ScanResult(mon, call)
    /\ dispatched' = Append(dispatched, [task_id |-> call.task_id,
                                         project |-> mon.projects[mon.p].name,
                                         requests |-> Len(call.sent),
                                         hist |-> call.hist])
    /\ UNCHANGED <<tasks, batch, cls, dist, regVars, sink, past>>

\* lines 283-287: the alert of the project
ScanAlert ==
    /\ mon.pc = "alert" /\ call.pc = "idle"
    /\ mon' = IF AlertsOn(mon.warnings)
              THEN [mon EXCEPT !.pc = "send",
                               !.msg = <<[kind |-> "alert",
                                          project |-> mon.projects[mon.p].name,
                                          task_id |-> 0,
                                          text |-> "Project Alert: "
                                                   \o mon.projects[mon.p].name
                                                   \o "\n\n" \o mon.warnings]>>]
              ELSE NextProject(mon)
    /\ UNCHANGED <<core, dist, regVars, sink, dispatched, past>>

\* await self.bot.send_message(...) has come back.  A send of an assignment
\* that raises is printed by the except clause of line 279 and the loop over
\* the tasks goes on; a send of an alert that raises leaves the loop over the
\* projects through the except clause of line 291.
ScanSend(send_ok) ==
    /\ mon.pc = "send" /\ call.pc = "idle"
    /\ sink' = IF send_ok THEN sink \o mon.msg ELSE sink
    /\ LET m == [mon EXCEPT !.msg = <<>>]
       IN  mon' = IF mon.msg[1].kind = "assignment" THEN NextTask(m)
                  ELSE IF send_ok THEN NextProject(m)
                  ELSE [m EXCEPT !.pc = "done", !.aborted = TRUE]
    /\ UNCHANGED <<core, dist, regVars, dispatched, past>>

\* the tasks a scan has sent a request for
RequestedBy(log) == {log[i].task_id : i \in {j \in DOMAIN log : log[j].requests > 0}}

\* the projects a scan has alerted
AlertedBy(sent) == {sent[i].project : i \in {j \in DOMAIN sent : sent[j].kind = "alert"}}

\* the job has returned; the scheduler waits for the next trigger.  The job
\* keeps nothing from one run to the next: what it did is remembered in past,
\* for the properties that span several runs, when remember is set.
ScanEnd(remember) ==
    /\ mon.pc = "done" /\ call.pc = "idle"
    /\ mon' = IdleScan
    /\ sink' = <<>>
    /\ dispatched' = <<>>
    /\ past' = IF remember
               THEN [requested |-> past.requested \cup RequestedBy(dispatched),
                     alerted |-> past.alerted \cup AlertedBy(sink)]
               ELSE past
    /\ UNCHANGED <<core, dist, regVars>>

-----------------------------------------------------------------------------
(* task_tools.py: get_tasks_tool; proactive_tools.py: suggest_next_actions  *)

Siren == "<U+1F6A8>"               \* police car light
Lock == "<U+1F512>"                \* lock
Bulb == "<U+1F4A1>"                \* light bulb
Clipboard == "<U+1F4CB>"           \* clipboard

\* get_tasks_tool(project_name, status=status)
get_tasks_tool(tbl, project_name, status) ==
    LET project == get_project_by_name(project_name)
    IN  IF project = None
        THEN "Error: Project '" \o project_name \o "' not found"
        ELSE
        LET found == get_tasks_by_project(tbl, project[1].id, status)
        IN  IF found = <<>>
            THEN "No tasks found for project '" \o project_name \o "'"
            ELSE JoinLines(<<"Tasks for " \o project_name \o ":">> \o
                   [i \in 1..Len(found) |->
                       "  #" \o ToString(found[i]) \o " [" \o tbl[found[i]].status \o "] ("
                       \o tbl[found[i]].priority \o ") " \o tbl[found[i]].title])

\* str.count(sub): the non-overlapping occurrences, from the left
RECURSIVE CountFrom(_, _, _)
CountFrom(s, sub, from) ==
    LET at == {i \in from..(Len(s) - Len(sub) + 1) : SubSeq(s, i, i + Len(sub) - 1) = sub}
    IN  IF at = {} THEN 0
        ELSE 1 + CountFrom(s, sub, (CHOOSE i \in at : \A j \in at : i <= j) + Len(sub))

Count(s, sub) == CountFrom(s, sub, 1)

\* lines 76-102: the suggestions for one project
ProjectSuggestions(tbl, project, now) ==
    LET warnings == get_project_warnings_tool(tbl, project.name, now)
        todo_tasks == get_tasks_tool(tbl, project.name, "todo")
        in_progress == get_tasks_tool(tbl, project.name, "in_progress")
    IN  (IF Contains(warnings, WarnSign) \/ Contains(warnings, "Overdue")
         THEN <<Siren \o " Overdue tasks need attention - suggest expediting">> ELSE <<>>)
        \o
        (IF Contains(warnings, "Blocked")
         THEN <<Lock \o " Blocked tasks need investigation">> ELSE <<>>)
        \o
        (IF /\ Contains(in_progress, "No tasks found") \/ Contains(in_progress, "0 tasks")
            /\ Contains(todo_tasks, "Task #")
         THEN <<Bulb \o " No tasks in progress - suggest starting next priority task">>
         ELSE <<>>)
        \o
        (IF Count(todo_tasks, "Task #") > 5
         THEN <<Clipboard \o " Multiple TODO tasks - suggest batch assignment to Dev Agents">>
         ELSE <<>>)

\* lines 104-107: the header of the project and one line per suggestion
SuggestionLines(tbl, project, now) ==
    LET project_suggestions == ProjectSuggestions(tbl, project, now)
    IN  IF project_suggestions = <<>> THEN <<>>
        ELSE <<"\n**" \o project.name \o "** (Priority: " \o project.priority \o "):">>
             \o [i \in 1..Len(project_suggestions) |->
                    "  " \o Bullet \o " " \o project_suggestions[i]]

RECURSIVE AllSuggestionLines(_, _, _)
AllSuggestionLines(tbl, projects, now) ==
    IF projects = <<>> THEN <<>>
    ELSE SuggestionLines(tbl, Head(projects), now)
         \o AllSuggestionLines(tbl, Tail(projects), now)

\* suggest_next_actions(): all the active projects
suggest_next_actions(tbl, now) ==
    LET projects == get_active_projects
        suggestions == AllSuggestionLines(tbl, projects, now)
    IN  IF projects = <<>> THEN CheckMark \o " No active projects found"
        ELSE IF suggestions = <<>>
        THEN CheckMark \o " All projects on track! No urgent actions needed."
        ELSE Target \o " **Proactive Suggestions:**\n" \o JoinLines(suggestions)
             \o "\n\nShall I take action on any of these, Master?"

\* scheduler.py, suggest_actions_periodically: the suggestions are sent
\* unless they say that nothing is urgent; a send that raises is printed
SuggestActionsPeriodically(send_ok) ==
    /\ mon.pc = "idle" /\ call.pc = "idle"
    /\ LET suggestions == suggest_next_actions(tasks, Today)
           message == [kind |-> "suggestions", project |-> "", task_id |-> 0,
                       text |-> "Proactive Suggestions:\n\n" \o suggestions]
       IN  /\ sink' = IF ~Contains(suggestions, "No urgent actions") /\ send_ok
                       THEN <<message>> ELSE <<>>
           /\ mon' = [IdleScan EXCEPT !.pc = "done", !.job = "suggest",
                                      !.warnings = suggestions]
    /\ UNCHANGED <<core, dist, regVars, dispatched, past>>

-----------------------------------------------------------------------------
(* The scheduled scan over a table of tasks                                 *)

\* the tasks the table is filled with
TaskProfiles == {
    [title |-> "Build REST API", description |-> None, status |-> "todo",
     priority |-> "high", assigned_to |-> None, due_date |-> None, age |-> 1],
    [title |-> "Fix login bug", description |-> Some("users cannot sign in"),
     status |-> "in_progress", priority |-> "medium", assigned_to |-> Some("dev_agent"),
     due_date |-> Some(Today - 5), age |-> 1],
    [title |-> "Migrate schema", description |-> None, status |-> "blocked",
     priority |-> "low", assigned_to |-> Some("dev_agent"), due_date |-> None, age |-> 4],
    [title |-> "Code review of login UI", description |-> Some(""), status |-> "todo",
     priority |-> "critical", assigned_to |-> Some("lead_dev"), due_date |-> None, age |-> 2],
    [title |-> "Overdue invoices report", description |-> None, status |-> "todo",
     priority |-> "medium", assigned_to |-> None, due_date |-> Some(Today - 1), age |-> 0],
    [title |-> "Deploy payment service", description |-> None, status |-> "todo",
     priority |-> "high", assigned_to |-> Some("dev_agent"),
     due_date |-> Some(Today - 5), age |-> 2],
    [title |-> "Update favicon", description |-> None, status |-> "done",
     priority |-> "high", assigned_to |-> Some("dev_agent"),
     due_date |-> Some(Today - 5), age |-> 3]
}

\* the row of task id made from a profile: the tasks go to the two active
\* projects in turn and a later id was created later
MonitorRow(id, profile) ==
    [title |-> profile.title, description |-> profile.description,
     status |-> profile.status, priority |-> profile.priority,
     assigned_to |-> profile.assigned_to, due_date |-> profile.due_date,
     updated_at |-> Today - profile.age, created_at |-> id,
     project_id |-> ((id - 1) % 2) + 1]

\* the worker answers: success, or a failure with its error text
MonitorEndpointBehaviours ==
    {b \in EndpointBehaviours :
        b.type = "Reply" /\ b.files = <<>> /\ (b.success \/ b.error # None)}

InitMonitor ==
    /\ tasks \in {[i \in TaskIds |-> MonitorRow(i, f[i])] : f \in [TaskIds -> TaskProfiles]}
    /\ call = IdleCall
    /\ batch = IdleBatch
    /\ cls = ClsIdle
    /\ dist = IdleDist
    /\ RegistryAtStart
    /\ MonitorAtStart

NextMonitor ==
    \/ ScanStart
    \/ ScanProject
    \/ \E fault \in DbFaults : ScanTask(fault)
    \/ \E b \in MonitorEndpointBehaviours : SpecialistAttempt(b)
    \/ ScanCollect
    \/ ScanAlert
    \/ \E send_ok \in BOOLEAN : ScanSend(send_ok)
    \/ ScanEnd(FALSE)
    \/ \E send_ok \in BOOLEAN : SuggestActionsPeriodically(send_ok)

SpecMonitor == InitMonitor /\ [][NextMonitor]_vars

-----------------------------------------------------------------------------
(* The scheduled scan, trigger after trigger                                *)

\* a task the scan gives to a worker, a task whose title makes the alert go
\* out, and a task that is done
CycleProfiles ==
    {f \in TaskProfiles :
        f.title \in {"Build REST API", "Overdue invoices report", "Update favicon"}}

InitCycles ==
    /\ tasks \in {[i \in TaskIds |-> MonitorRow(i, f[i])] : f \in [TaskIds -> CycleProfiles]}
    /\ call = IdleCall
    /\ batch = IdleBatch
    /\ cls = ClsIdle
    /\ dist = IdleDist
    /\ RegistryAtStart
    /\ MonitorAtStart

NextCycles ==
    \/ ScanStart
    \/ ScanProject
    \/ ScanTask("none")
    \/ \E b \in MonitorEndpointBehaviours : SpecialistAttempt(b)
    \/ ScanCollect
    \/ ScanAlert
    \/ \E send_ok \in BOOLEAN : ScanSend(send_ok)
    \/ ScanEnd(TRUE)

SpecCycles == InitCycles /\ [][NextCycles]_vars

-----------------------------------------------------------------------------
(* The scheduled scan over a project with more todo tasks than it takes     *)

\* the ids of the rows: one more than the table of the other specifications
BacklogIds == 1..(NumTasks + 1)

BacklogPriorities == {"critical", "high", "medium"}

\* a todo task of project 1 that no keyword keeps from a worker; a later id
\* was created later
BacklogRow(id, priority) ==
    [title |-> "Build REST API", description |-> None, status |-> "todo",
     priority |-> priority, assigned_to |-> None, due_date |-> None,
     updated_at |-> Today - 1, created_at |-> id, project_id |-> 1]

InitBacklog ==
    /\ tasks \in {[i \in BacklogIds |-> BacklogRow(i, f[i])] :
                      f \in [BacklogIds -> BacklogPriorities]}
    /\ call = IdleCall
    /\ batch = IdleBatch
    /\ cls = ClsIdle
    /\ dist = IdleDist
    /\ RegistryAtStart
    /\ MonitorAtStart

NextBacklog ==
    \/ ScanStart
    \/ ScanProject
    \/ ScanTask("none")
    \/ \E b \in MonitorEndpointBehaviours : SpecialistAttempt(b)
    \/ ScanCollect
    \/ ScanAlert
    \/ \E send_ok \in BOOLEAN : ScanSend(send_ok)
    \/ ScanEnd(FALSE)

SpecBacklog == InitBacklog /\ [][NextBacklog]_vars

-----------------------------------------------------------------------------
(* batch_assign_tasks over tasks that go to one worker                      *)

\* every task is a todo task for the backend worker, of high or medium
\* priority
InitBatchPriority ==
    /\ tasks \in {[i \in TaskIds |-> BacklogRow(i, f[i])] :
                      f \in [TaskIds -> {"high", "medium"}]}
    /\ call = IdleCall
    /\ batch = IdleBatch
    /\ cls = ClsIdle
    /\ dist = IdleDist
    /\ RegistryAtStart
    /\ MonitorAtStart

NextBatchPriority ==
    \/ \E l \in IdLists(MaxBatch) : BatchAssignTasks(l)
    \/ BatchCallAutoAssign("none")
    \/ \E b \in MonitorEndpointBehaviours : SpecialistAttempt(b)
    \/ BatchCollect
    \/ BatchReturn

SpecBatchPriority == InitBatchPriority /\ [][NextBatchPriority]_vars

-----------------------------------------------------------------------------
(* The scheduled scan and the chat handler on one event loop                *)

\* the scan and the handlers of the bot are coroutines of one event loop and
\* the tool calls are synchronous: a handler runs only while no scan is
\* running or while the scan awaits bot.send_message, and runs to its end
AtAwaitPoint == mon.pc \in {"idle", "send", "done"}

\* the agent_key arguments of the chat loop: none, or a worker by name
ChatKeyInputs == {None, Some("testing")}

\* a message of the user makes the chat loop call execute_with_specialist_agent
ChatExecute(task_id, given_key) ==
    AtAwaitPoint /\ ExecuteWithSpecialistAgent(task_id, given_key)

\* a message of the user makes the chat loop call update_task_status_tool
ChatUpdateStatus(task_id, new_status) ==
    AtAwaitPoint /\ UpdateTaskStatus(task_id, new_status)

\* the worker answers with success
ScanAndChatBehaviours ==
    {b \in EndpointBehaviours : b.type = "Reply" /\ b.success /\ b.files = <<>>}

NextScanAndChat ==
    \/ ScanStart
    \/ ScanProject
    \/ ScanTask("none")
    \/ \E b \in ScanAndChatBehaviours : SpecialistAttempt(b)
    \/ ScanCollect
    \/ ScanAlert
    \/ \E send_ok \in BOOLEAN : ScanSend(send_ok)
    \/ ScanEnd(FALSE)
    \/ \E t \in RequestedIds, k \in ChatKeyInputs : ChatExecute(t, k)
    \/ \E t \in TaskIds : ChatUpdateStatus(t, "done")
    \/ ChatReturn

\* every task is a todo task of high priority that goes to a worker
InitScanAndChat ==
    /\ tasks = [i \in TaskIds |->
                  MonitorRow(i, CHOOSE f \in TaskProfiles : f.title = "Build REST API")]
    /\ call = IdleCall
    /\ batch = IdleBatch
    /\ cls = ClsIdle
    /\ dist = IdleDist
    /\ RegistryAtStart
    /\ MonitorAtStart

SpecScanAndChat == InitScanAndChat /\ [][NextScanAndChat]_vars

-----------------------------------------------------------------------------
(* Properties of the dispatch loops (specification Spec)                    *)

ConnFailures == {"ConnectionError", "ConnectTimeout"}

\* the attempts of the call that were followed by another attempt
Retried(c) == {i \in 1..Len(c.hist) : i < Len(c.hist) \/ c.pc = "attempt"}

TaskExists(task_id) == task_id \in DOMAIN tasks

\* the messages the running call would return for what its last attempt met
MessagesOf(c) ==
    IF c.fn = "dev" THEN DevMessages(c.task_id, c.last)
    ELSE SpecialistMessages(c.agent_key, c.task_id, c.last)

\* C1 as stated: an attempt is followed by another attempt only when it ended
\* in a connection failure or a timeout.
C1_RetryOnlyConnectionOrTimeout ==
    \A i \in Retried(call) : call.hist[i] \in ConnFailures \cup {"ReadTimeout"}

\* C1, amended: an attempt is followed by another attempt only when it raised
\* an exception (a connection failure, a timeout, or any other error, an
\* undecodable reply included); an attempt that ends with a decoded reply ends
\* the call with no further request.
C1_RetryOnlyAfterException ==
    /\ \A i \in Retried(call) : call.hist[i] # "Reply"
    /\ (call.hist # <<>> /\ call.last.type = "Reply") => call.pc = "done"

\* a call that sent a second request after an undecodable reply and ended
\* with a decoded reply
C1_Witness ==
    /\ call.pc = "done"
    /\ Len(call.sent) = 2
    /\ call.hist = <<"NotJSON", "Reply">>

\* C2: one execute call sends at most 3 requests, and when the first two
\* attempts fail with a connection failure a third attempt is made, which, if
\* the worker then replies success=true, makes the call return success.
C2_AtMostThreeRequests ==
    /\ Len(call.sent) <= 3
    /\ Len(call.sent) = Len(call.hist)
    /\ (/\ call.pc = "done"
        /\ Len(call.hist) >= 2
        /\ call.hist[1] \in ConnFailures
        /\ call.hist[2] \in ConnFailures)
       => /\ Len(call.sent) = 3
          /\ (call.last.type = "Reply" /\ call.last.success)
                => (call.retAt = RetSuccess /\ call.ret = MessagesOf(call).success)

\* two connection failures, then success at the third request
C2_Witness ==
    /\ call.pc = "done"
    /\ call.hist = <<"ConnectionError", "ConnectionError", "Reply">>
    /\ call.last.success
    /\ call.retAt = RetSuccess

\* C3: a reply with success=false ends the call at once (it is the last
\* request of the call) with the worker-rejected outcome, which carries the
\* worker's error text and differs from the cannot-connect and timeout outcomes.
C3_RejectedNotRetried ==
    (call.hist # <<>> /\ call.last.type = "Reply" /\ ~call.last.success)
    => /\ call.pc = "done"
       /\ call.retAt = RetRejected
       /\ \A i \in 1..(Len(call.hist) - 1) : call.hist[i] # "Reply"
       /\ Contains(call.ret, IF call.last.error = None THEN "Unknown error"
                             ELSE call.last.error[1])
       /\ call.ret # MessagesOf(call).cannot_connect
       /\ call.ret # MessagesOf(call).timeout

\* the worker rejects the first request with an error text
C3_Witness ==
    /\ call.pc = "done"
    /\ call.fn = "specialist"
    /\ call.hist = <<"Reply">>
    /\ ~call.last.success
    /\ call.last.error = Some("tests failed")
    /\ Len(call.sent) = 1

\* C4: when all 3 attempts fail, the call returns the cannot-connect outcome
\* if they were connection failures and the timeout outcome if they were
\* (read) timeouts; the timeout message is not the rejected message and does
\* not say that the task failed.
C4_ExhaustionOutcome ==
    (call.pc = "done" /\ Len(call.hist) = 3)
    => /\ (\A i \in 1..3 : call.hist[i] \in ConnFailures)
            => (call.retAt = RetCannotConnect
                /\ call.ret = MessagesOf(call).cannot_connect)
       /\ (\A i \in 1..3 : call.hist[i] = "ReadTimeout")
            => /\ call.retAt = RetTimeout
               /\ call.ret = MessagesOf(call).timeout
               /\ call.ret # MessagesOf(call).cannot_connect
               /\ ~Contains(Lower(call.ret), "fail")
               /\ ~Contains(Lower(call.ret), "error")

\* three timeouts in a row
C4_Witness ==
    /\ call.pc = "done"
    /\ call.hist = <<"ReadTimeout", "ReadTimeout", "ReadTimeout">>
    /\ call.retAt = RetTimeout

\* C5 as stated: a call with a worker key that is not in the worker table
\* sends no request and returns a not-found outcome.
C5_UnknownKeyNoRequest ==
    (/\ call.fn = "specialist"
     /\ call.pc \in {"attempt", "done"}
     /\ call.given_key # None
     /\ ~InDevAgents(call.given_key[1]))
    => /\ call.sent = <<>>
       /\ call.pc = "done" => call.retAt \in {RetUnknownAgent, RetTaskNotFound}

\* C5, amended: for a task that exists, a non-empty worker key that is neither
\* in the worker table nor 'general' gives the unknown-agent outcome and no
\* request; the key 'general' is replaced by 'frontend' and an empty key by the
\* detected worker, and the call goes on to send requests; for a task that
\* does not exist the call returns task-not-found, with no request either.
C5_UnknownKeyNoRequestUnlessGeneral ==
    (call.fn = "specialist" /\ call.pc \in {"attempt", "done"} /\ call.given_key # None)
    => LET key == call.given_key[1]
       IN  /\ ~TaskExists(call.task_id)
                => (call.pc = "done" /\ call.retAt = RetTaskNotFound /\ call.sent = <<>>)
           /\ (TaskExists(call.task_id) /\ key \notin {"", "general"} /\ ~InDevAgents(key))
                => /\ call.pc = "done"
                   /\ call.retAt = RetUnknownAgent
                   /\ call.ret = MojiCross \o " Unknown agent: " \o key
                   /\ call.sent = <<>>
           /\ (TaskExists(call.task_id) /\ key = "general")
                => /\ call.agent_key = "frontend"
                   /\ call.retAt \notin {RetUnknownAgent, RetTaskNotFound}
                   /\ call.pc = "done" => Len(call.sent) >= 1

\* the unknown key "testing" for a task that exists
C5_Witness ==
    /\ call.pc = "done"
    /\ call.fn = "specialist"
    /\ TaskExists(call.task_id)
    /\ call.given_key = Some("testing")
    /\ call.retAt = RetUnknownAgent

\* C6 as stated: when the call returns confirmed success for task t it has
\* issued the update that puts t in status 'review'; on every other outcome
\* it has issued no update.
C6_SuccessIssuesReviewUpdate ==
    call.pc = "done"
    => IF call.retAt = RetSuccess
       THEN \E i \in 1..Len(call.writes) :
               call.writes[i] = [task_id |-> call.task_id, status |-> "review"]
       ELSE call.writes = <<>>

\* C6, amended: a dispatch call issues no update to the task table on any
\* outcome, confirmed success included: every step of a dispatch call leaves
\* the table as it is.
C6_DispatchLeavesTaskTable ==
    [][(call' # call) => (tasks' = tasks /\ call'.writes = <<>>)]_vars

\* a confirmed success for a task that is still not in review
C6_Witness ==
    /\ call.pc = "done"
    /\ call.retAt = RetSuccess
    /\ tasks[call.task_id].status = "todo"
    /\ call.writes = <<>>

-----------------------------------------------------------------------------
(* Properties of the classifier (specification SpecClassify)                *)

\* the keywords of worker i that occur in the text
MatchedKeywords(i, text) ==
    {j \in 1..Len(DEV_AGENTS[i].keywords) : Contains(text, DEV_AGENTS[i].keywords[j])}

ClsText == Combined(cls.title, cls.description)

\* C8: the classifier returns 'general' if and only if no keyword of any
\* worker of the table occurs in the lower-cased "title description" text;
\* otherwise it returns a key of the table.
C8_GeneralIffNoKeyword ==
    cls.pc = "done"
    => /\ (cls.result = "general")
            <=> (\A i \in 1..Len(DEV_AGENTS) : MatchedKeywords(i, ClsText) = {})
       /\ cls.result # "general" => InDevAgents(cls.result)

\* a text without any keyword, classified 'general'
C8_Witness ==
    /\ cls.pc = "done"
    /\ cls.result = "general"
    /\ cls.title = "logo"

\* C9: each worker's score is the number of its keywords that occur in the
\* text, and when the best score is at least 1 the classifier returns the
\* first worker of the table among those with the best score.
C9_ScoreAndTieBreak ==
    cls.pc = "done"
    => LET n == Len(DEV_AGENTS)
           count == [i \in 1..n |-> Cardinality(MatchedKeywords(i, ClsText))]
           best == CHOOSE m \in {count[i] : i \in 1..n} : \A i \in 1..n : count[i] <= m
           first == CHOOSE i \in 1..n :
                       count[i] = best /\ \A k \in 1..(i - 1) : count[k] < best
       IN  /\ \A i \in 1..n : cls.scores[DEV_AGENTS[i].key] = count[i]
           /\ best >= 1 => cls.result = DEV_AGENTS[first].key

\* the second and the third worker tie with the best score and the second wins
C9_Witness ==
    /\ cls.pc = "done"
    /\ cls.scores["backend"] = cls.scores["database"]
    /\ cls.scores["backend"] >= 1
    /\ cls.scores["frontend"] < cls.scores["backend"]
    /\ cls.result = "backend"

-----------------------------------------------------------------------------
(* Properties of batch_assign_tasks (specification SpecBatch)             *)

\* the list positions whose lookup in auto_assign_task found no row
UnresolvedPositions(bt) ==
    {i \in 1..Len(bt.returns) : ~bt.returns[i].raised /\ ~TaskExists(bt.task_ids[i])}

NotFoundOutcomes(bt) ==
    {i \in 1..Len(bt.returns) : bt.returns[i].retAt = RetAutoNotFound}

\* C10: the batch takes every list position exactly once, in order, and never
\* ends early: a finished batch over N ids holds N result lines, also when an
\* id has no row, a dispatch fails, or a call raises.  The not-found outcomes
\* are exactly the positions whose lookup found no row (one such position gives
\* one not-found outcome), and every other outcome is that of a call made for
\* the id at its own position, whose result line it carries.
C10_BatchIsolation ==
    /\ batch.pc # "raised"
    /\ Len(batch.results) = batch.i - 1
    /\ Len(batch.returns) = batch.i - 1
    /\ batch.successful + batch.failed = batch.i - 1
    /\ batch.pc = "done" => Len(batch.results) = Len(batch.task_ids)
    /\ batch.pc \in {"loop", "waiting"} => batch.i <= Len(batch.task_ids)
    /\ NotFoundOutcomes(batch) = UnresolvedPositions(batch)
    /\ \A i \in 1..Len(batch.returns) :
          LET r == batch.returns[i]
              id == batch.task_ids[i]
          IN  /\ r.task_id = id
              /\ Contains(batch.results[i], "Task #" \o ToString(id))
              /\ r.retAt = RetAutoNotFound
                    => (r.requests = 0 /\ Contains(batch.results[i], "not found"))
              /\ r.requests <= 3
              /\ (r.requests >= 1 /\ r.last = "Reply")
                    => r.retAt \in {RetSuccess, RetRejected}
              /\ (r.requests >= 1 /\ r.last # "Reply")
                    => (r.requests = 3
                        /\ r.retAt \in {RetCannotConnect, RetTimeout, RetOtherError})
              /\ \/ batch.results[i] = CheckMark \o " Task #" \o ToString(id) \o " assigned"
                 \/ Contains(batch.results[i], Prefix(r.ret, 50))

\* a finished batch with one id without a row, first in the list, and a later
\* id whose call raised
C10_Witness ==
    /\ batch.pc = "done"
    /\ Len(batch.task_ids) = 2
    /\ Cardinality(NotFoundOutcomes(batch)) = 1
    /\ batch.returns[1].retAt = RetAutoNotFound
    /\ batch.returns[2].raised

\* the list positions whose dispatch returned confirmed success
ConfirmedSuccesses(bt) ==
    {i \in 1..Len(bt.returns) : bt.returns[i].retAt = RetSuccess}

\* C11: in the report of a finished batch the success count is the number of
\* ids whose dispatch returned confirmed success, the failure count is the
\* number of all other ids, and the two add up to the number of ids given.
C11_BatchCounts ==
    (batch.pc = "done" /\ batch.task_ids # <<>>)
    => LET n == Len(batch.task_ids)
           ok == Cardinality(ConfirmedSuccesses(batch))
       IN  /\ batch.successful = ok
           /\ batch.failed = n - ok
           /\ batch.successful + batch.failed = n
           /\ Contains(batch.ret, "Success: " \o ToString(ok) \o "/" \o ToString(n))

-----------------------------------------------------------------------------
(* Properties of distribute_tasks_intelligently (specification SpecBatch)   *)

\* the elements of a list
Elems(l) == {l[i] : i \in 1..Len(l)}

\* the ids of the distribution, over all its lists
Distributed(d) == UNION {Elems(d[k]) : k \in DOMAIN d}

\* the number of positions of the list that hold the id
Occurrences(l, id) == Cardinality({i \in 1..Len(l) : l[i] = id})

\* C12 as stated: every id given that has no task is listed in a not_found
\* bucket of the result, and no id given is absent from the result.
C12_NotFoundBucket ==
    (dist.pc = "done" /\ dist.task_ids # <<>>)
    => \A id \in Elems(dist.task_ids) :
          /\ Contains(dist.ret, "Task #" \o ToString(id) \o "\n")
          /\ ~TaskExists(id)
                => /\ "not_found" \in DOMAIN dist.distribution
                   /\ id \in Elems(dist.distribution["not_found"])

\* C12, amended: the result holds the four lists frontend, backend, database
\* and general and no not_found list; an id without a task is in no list and
\* not in the report, and is left out of the total; an id with a task is in
\* the list of the worker the classifier detects for it, and only there, as
\* many times as it was given, and the report names it.
C12_UnresolvedIdsDropped ==
    (dist.pc = "done" /\ dist.task_ids # <<>>)
    => LET d == dist.distribution
           resolved == {i \in 1..Len(dist.task_ids) : TaskExists(dist.task_ids[i])}
       IN  /\ DOMAIN d = {"frontend", "backend", "database", "general"}
           /\ \A id \in Elems(dist.task_ids) :
                 IF TaskExists(id)
                 THEN LET key == detect_agent_specialty(tasks[id].title,
                                                        tasks[id].description)
                      IN  /\ Occurrences(d[key], id) = Occurrences(dist.task_ids, id)
                          /\ \A k \in DOMAIN d \ {key} : id \notin Elems(d[k])
                          /\ Contains(dist.ret, "Task #" \o ToString(id) \o "\n")
                 ELSE /\ id \notin Distributed(d)
                      /\ ~Contains(dist.ret, "Task #" \o ToString(id) \o "\n")
           /\ Contains(dist.ret, "**Total:** " \o ToString(Cardinality(resolved))
                                 \o " tasks distributed")

\* a distribution of one id with a task and the id without a task
C12_Witness ==
    /\ dist.pc = "done"
    /\ dist.task_ids = <<NumTasks + 1, 2>>
    /\ dist.distribution["backend"] = <<2>>
    /\ Distributed(dist.distribution) = {2}

-----------------------------------------------------------------------------
(* Properties of create_new_agent (specifications SpecRegistry and          *)
(* SpecRegistryRace)                                                        *)

\* the registry: the workers of the static table and the workers of the
\* persisted file, as (key, port) pairs in order
RegistryEntries(cfg) ==
    [i \in 1..Len(DEV_AGENTS) |->
        [key |-> DEV_AGENTS[i].key, port |-> PortOfEndpoint(DEV_AGENTS[i].endpoint)]]
    \o [i \in 1..Len(cfg.agents) |->
        [key |-> cfg.agents[i].key, port |-> PortOfEndpoint(cfg.agents[i].endpoint)]]

\* the ports held by the workers of the registry
HeldPorts(cfg) == {RegistryEntries(cfg)[i].port : i \in 1..Len(RegistryEntries(cfg))}

RegisteredKeys(cfg) == {cfg.agents[i].key : i \in 1..Len(cfg.agents)}

\* the step is the entry of caller p into create_new_agent
Enters(p) == reg[p].pc = "idle" /\ reg'[p].pc # "idle"

\* C13: a call of create_new_agent whose port is held by a worker of the
\* registry returns the port-in-use error, naming the port, whatever
\* request_approval is, and the file and the worker directories are as before
\* the call, for as long as its result stands.
C13_DuplicatePortRejected ==
    [][\A p \in Callers :
          /\ (Enters(p) /\ reg'[p].port \in HeldPorts(config))
                => /\ reg'[p].pc = "done"
                   /\ reg'[p].retAt = RetPortInUse
                   /\ Contains(reg'[p].ret,
                               "Port " \o ToString(reg'[p].port) \o " already in use by ")
                   /\ config' = config /\ dirs' = dirs /\ committed' = committed
          /\ (reg[p].retAt = RetPortInUse /\ reg[p].pc = "done")
                => (config' = config /\ dirs' = dirs /\ committed' = committed)]_vars

\* a commit refused for the port of a worker that was created before
C13_Witness ==
    /\ reg[FirstCaller].pc = "done"
    /\ reg[FirstCaller].retAt = RetPortInUse
    /\ ~reg[FirstCaller].request_approval
    /\ reg[FirstCaller].port = 3004
    /\ reg[FirstCaller].specialty = "devops"
    /\ \E i \in 1..Len(config.agents) : config.agents[i].endpoint = "http://localhost:3004"

\* C14: when two calls of create_new_agent(request_approval=False) overlap, at
\* most one call for a given port is confirmed, and the registry never holds
\* two workers with the same port.
C14_NoSharedPortUnderRace ==
    /\ \A v, w \in committed : v.port = w.port => v = w
    /\ LET entries == RegistryEntries(config)
       IN  \A i, j \in 1..Len(entries) : entries[i].port = entries[j].port => i = j

\* C15: with one call of create_new_agent at a time, no two workers of the
\* registry (static table and persisted file) share a key, and no two share
\* a port.
C15_UniqueKeysAndPorts ==
    LET entries == RegistryEntries(config)
    IN  \A i, j \in 1..Len(entries) :
           (entries[i].key = entries[j].key \/ entries[i].port = entries[j].port) => i = j

\* two workers created one after the other, and a third call that asks for
\* the key of the first under another spelling
C15_Witness ==
    /\ Len(config.agents) = 2
    /\ reg[FirstCaller].pc = "done"
    /\ reg[FirstCaller].specialty = "Testing"
    /\ reg[FirstCaller].port \notin HeldPorts(config)
    /\ reg[FirstCaller].retAt = RetDirExists

\* the text of the task the running dispatch call is for
CallText == Combined(tasks[call.task_id].title, tasks[call.task_id].description)

\* C16: a worker that create_new_agent has confirmed as created is, from then
\* on, listed by get_all_agents, accepted as a worker key by
\* execute_with_specialist_agent, and scored by detect_agent_specialty: a task
\* whose text holds keywords of that worker only is detected as that worker's.
C16_RegisteredWorkerVisible ==
    \A w \in committed :
       /\ \E i \in 1..Len(get_all_agents(config)) : get_all_agents(config)[i].key = w.key
       /\ (/\ call.fn = "specialist" /\ call.pc \in {"attempt", "done"}
           /\ TaskExists(call.task_id))
          => /\ call.given_key = Some(w.key)
                   => (call.retAt # RetUnknownAgent /\ call.agent_key = w.key)
             /\ (/\ call.given_key = None
                 /\ \A i \in 1..Len(DEV_AGENTS) : MatchedKeywords(i, CallText) = {}
                 /\ \E i \in 1..Len(config.agents) :
                       /\ config.agents[i].key = w.key
                       /\ \E j \in 1..Len(config.agents[i].keywords) :
                             Contains(CallText, config.agents[i].keywords[j]))
                   => call.detected = Some(w.key)

\* C17: a call of create_new_agent with request_approval=True returns the
\* port-range error, the port-in-use error or the approval request, and its
\* step leaves the file, the worker directories and the set of created
\* workers as they are.
C17_ProposeLeavesRegistry ==
    [][\A p \in Callers :
          (reg'[p] # reg[p] /\ reg'[p].pc # "idle" /\ reg'[p].request_approval)
          => /\ Enters(p)
             /\ reg'[p].pc = "done"
             /\ reg'[p].retAt \in {RetPortRange, RetPortInUse, RetApproval}
             /\ reg'[p].retAt = RetApproval
                   => (/\ reg'[p].ret = ApprovalText(reg'[p])
                       /\ ~PortOutOfRange(reg'[p].port)
                       /\ reg'[p].port \notin HeldPorts(config))
             /\ config' = config /\ dirs' = dirs /\ committed' = committed]_vars

\* an approval request for a second worker, after a first one was created
C17_Witness ==
    /\ reg[FirstCaller].pc = "done"
    /\ reg[FirstCaller].request_approval
    /\ reg[FirstCaller].retAt = RetApproval
    /\ reg[FirstCaller].specialty = "devops"
    /\ config.exists
    /\ "devops-agent" \notin DOMAIN dirs

\* the failure returns of the try block of create_new_agent
ScaffoldFailures == {RetDirExists, RetTemplateMissing, RetCreateError}

\* C18: a worker is in the persisted file only when every scaffolding step of
\* its directory has been done, and a call of create_new_agent that ends in a
\* failure of the try block (directory exists, template missing, or a step
\* that raised) has not added or changed any worker of the file.
C18_NoHalfRegisteredWorker ==
    [][/\ \A k \in RegisteredKeys(config') :
             /\ (k \o "-agent") \in DOMAIN dirs'
             /\ dirs'[k \o "-agent"] = "agent.ts"
       /\ \A p \in Callers :
             (reg'[p] # reg[p] /\ reg'[p].pc = "done" /\ reg'[p].retAt \in ScaffoldFailures)
             => (config' = config /\ committed' = committed
                 /\ reg[p].pc \notin {"register write", "done"})
       /\ (config' # config)
             => \E p \in Callers :
                   /\ reg[p].pc = "register write"
                   /\ reg'[p].retAt = RetCreated
                   /\ dirs[AgentDirName(reg[p].specialty)] = "agent.ts"]_vars

\* the rewrite of .env.example raised: the directory is left half scaffolded
\* and the worker is not in the file
C18_Witness ==
    /\ reg[FirstCaller].pc = "done"
    /\ reg[FirstCaller].retAt = RetCreateError
    /\ reg[FirstCaller].specialty = "testing"
    /\ "testing-agent" \in DOMAIN dirs
    /\ dirs["testing-agent"] = "package.json"
    /\ "testing" \notin RegisteredKeys(config)

-----------------------------------------------------------------------------
(* Properties of the scheduled scan (specification SpecMonitor)             *)

\* the conditions of a task row, at the time of the scan
Overdue(t) == t.status # "done" /\ t.due_date # None /\ t.due_date[1] < Today
StaleBlocked(t) == t.status = "blocked" /\ Today - t.updated_at > 3
UnassignedUrgent(t) ==
    t.status = "todo" /\ t.priority \in {"high", "critical"} /\ t.assigned_to = None

ProjectTasks(project_id) == {tasks[i] : i \in {j \in DOMAIN tasks : tasks[j].project_id = project_id}}

\* proactive_task_monitoring has gone through all the active projects
ScanFinished == mon.pc = "done" /\ mon.job = "monitor" /\ ~mon.aborted

AlertsOf(name) == {i \in DOMAIN sink : sink[i].kind = "alert" /\ sink[i].project = name}

\* the requests the scan has sent to workers for tasks of the project
RequestsOf(name) ==
    {i \in DOMAIN dispatched : dispatched[i].project = name /\ dispatched[i].requests > 0}

\* C19: when a scan has gone through the active projects, every active
\* project with an overdue task that is not done, a task blocked for more
\* than 3 days or an unassigned todo task of high or critical priority has
\* had an alert sent in that scan.
C19_AlertForEveryCondition ==
    ScanFinished =>
        \A p \in Elems(get_active_projects) :
            (\E t \in ProjectTasks(p.id) : Overdue(t) \/ StaleBlocked(t) \/ UnassignedUrgent(t))
            => AlertsOf(p.name) # {}

OnlyOverdueAndStale(project_id) ==
    /\ \E t \in ProjectTasks(project_id) : Overdue(t)
    /\ \E t \in ProjectTasks(project_id) : StaleBlocked(t)
    /\ \A t \in ProjectTasks(project_id) : ~UnassignedUrgent(t)

\* C20: when a scan has gone through the active projects, a project whose
\* conditions are an overdue task and a task blocked for more than 3 days,
\* and no unassigned urgent task, has had an alert sent that reports both
\* conditions, and no request for a task of the project has gone to a worker.
C20_BothReportedNoDispatch ==
    ScanFinished =>
        \A p \in Elems(get_active_projects) :
            OnlyOverdueAndStale(p.id) =>
                /\ \E i \in AlertsOf(p.name) :
                      /\ Contains(sink[i].text, "overdue task(s)")
                      /\ Contains(sink[i].text, "blocked > 3 days")
                /\ RequestsOf(p.name) = {}

\* the two halves of C20, apart
C20_BothReported ==
    ScanFinished =>
        \A p \in Elems(get_active_projects) :
            OnlyOverdueAndStale(p.id) => AlertsOf(p.name) # {}

C20_NoDispatch ==
    ScanFinished =>
        \A p \in Elems(get_active_projects) :
            OnlyOverdueAndStale(p.id) => RequestsOf(p.name) = {}

\* no alert is ever sent unless the title of a listed task holds one of the
\* two capitalised words
NoAlertWithoutTitleWord ==
    \A i \in DOMAIN sink :
        sink[i].kind = "alert" =>
            \E j \in DOMAIN tasks :
                Contains(tasks[j].title, "Overdue") \/ Contains(tasks[j].title, "Blocked")

\* the suggestions never name the blocked tasks
SuggestionsNeverNameBlocked ==
    \A i \in DOMAIN sink :
        sink[i].kind = "suggestions" => ~Contains(sink[i].text, "Blocked tasks")

\* an alert is sent when such a title is listed
SomeAlertSent == \E i \in DOMAIN sink : sink[i].kind = "alert"

-----------------------------------------------------------------------------
(* Properties of the scan over several triggers (specification SpecCycles)  *)

\* the scan sends a request to a worker in this step
ScanRequests == call.caller = "scan" /\ Len(call'.sent) > Len(call.sent)

\* the scan sends an alert for the project in this step
ScanAlerts(name) ==
    /\ Len(sink') > Len(sink)
    /\ sink'[Len(sink')].kind = "alert" /\ sink'[Len(sink')].project = name

\* C21: over consecutive scans, a task for which an earlier scan has sent a
\* request to a worker is not sent to a worker again by a later scan.
C21_NoRepeatedDispatch ==
    [][ScanRequests => call.task_id \notin past.requested]_vars

\* the other half of C21: no project is alerted again and again without end
C21_AlertsCease ==
    \A name \in {"Website", "Mobile App"} : <>[][~ScanAlerts(name)]_vars

\* a project alerted by an earlier scan is alerted again
C21_NoRepeatedAlert ==
    [][\A name \in past.alerted : ~ScanAlerts(name)]_vars

-----------------------------------------------------------------------------
(* Properties of auto_assign_task (specification SpecBatch)                 *)

\* the lower-cased title and description of the task, with a space between,
\* hold one of the architecture/review keywords
HasArchitectureKeyword(task_id) ==
    /\ task_id \in DOMAIN tasks
    /\ \E kw \in {"review code", "architecture", "design plan", "evaluate architecture",
                  "refactor strategy", "code review", "technical design"} :
           Contains(Lower(tasks[task_id].title) \o " "
                    \o Lower(OrEmpty(tasks[task_id].description)), kw)

\* C22: auto_assign_task, called by batch_assign_tasks or by the scheduled
\* scan, sends no request for a task whose lower-cased title and description
\* hold an architecture/review keyword; unless the database raised, the call
\* returns the text that names the Lead Dev Agent.
C22_ArchitectureTasksNotRequested ==
    /\ (call.caller \in {"batch", "scan"} /\ HasArchitectureKeyword(call.task_id))
           => call.sent = <<>>
    /\ \A k \in DOMAIN batch.returns :
           HasArchitectureKeyword(batch.returns[k].task_id)
               => /\ batch.returns[k].requests = 0
                  /\ \/ batch.returns[k].raised
                     \/ /\ batch.returns[k].retAt = RetLeadDev
                        /\ Contains(batch.returns[k].ret,
                                    "requires Lead Dev Agent (architecture/review)")
    /\ \A k \in DOMAIN dispatched : ~HasArchitectureKeyword(dispatched[k].task_id)

\* batch_assign_tasks has passed a task with a keyword to auto_assign_task,
\* which returned the Lead Dev text
C22_Witness ==
    \E k \in DOMAIN batch.returns :
        /\ HasArchitectureKeyword(batch.returns[k].task_id)
        /\ batch.returns[k].retAt = RetLeadDev

\* the scan has passed a task with a keyword to auto_assign_task and gone on
C22_ScanWitness ==
    /\ mon.job = "monitor" /\ mon.k > 1 /\ mon.picked # <<>>
    /\ \E k \in 1..Min(mon.k - 1, Len(mon.picked)) :
           /\ HasArchitectureKeyword(mon.picked[k])
           /\ tasks[mon.picked[k]].priority \in {"high", "critical"}

-----------------------------------------------------------------------------
(* Failures inside one scheduled scan (specification SpecMonitor)           *)

\* C24: a failure while one task or project is handled (a dispatch that
\* fails or raises, a send_message that raises) does not keep the scan from
\* going through the remaining active projects: a scan that has returned has
\* reached the last of the active projects.
C24_ScanReachesEveryProject ==
    (mon.job = "monitor" /\ mon.pc = "done") => mon.p = Len(mon.projects)

\* a dispatch that raised, or whose assignment message could not be sent,
\* is followed by the rest of the scan
C24_TaskFailureIsolated ==
    (mon.job = "monitor" /\ mon.pc = "done" /\ ~mon.aborted) => mon.p = Len(mon.projects)

-----------------------------------------------------------------------------
(* Properties of suggest_next_actions (specification SpecMonitor)           *)

\* the places of the text where sub starts
Positions(text, sub) ==
    {i \in 1..(Len(text) - Len(sub) + 1) : SubSeq(text, i, i + Len(sub) - 1) = sub}

\* the places where the header line of a project starts
HeaderPositions(text, name) == Positions(text, "\n**" \o name \o "** (Priority: ")

\* the text holds the phrase in the lines under the header of the project
ReportedFor(text, name, phrase) ==
    \E h \in HeaderPositions(text, name), l \in Positions(text, phrase) :
        /\ h < l
        /\ \A p \in Elems(get_active_projects) :
               \A g \in HeaderPositions(text, p.name) : ~(h < g /\ g < l)

\* the conditions of the tasks of a project
IdleProject(project_id) ==
    /\ \A t \in ProjectTasks(project_id) : t.status # "in_progress"
    /\ \E t \in ProjectTasks(project_id) : t.status = "todo"

BacklogProject(project_id) ==
    Cardinality({i \in DOMAIN tasks :
                    tasks[i].project_id = project_id /\ tasks[i].status = "todo"}) > 5

\* suggest_next_actions has returned its text
SuggestionsReturned == mon.job = "suggest" /\ mon.pc = "done"

\* C25: in the text suggest_next_actions returns, each active project has the
\* line of a condition exactly when the condition holds of its tasks:
\* Overdue (a task not done and past its due date), StaleBlocked (a task
\* blocked for more than 3 days), Idle (no task in progress and a todo task),
\* Backlog (more than 5 todo tasks).
C25_ReportsExactlyTheConditions ==
    SuggestionsReturned =>
        \A p \in Elems(get_active_projects) :
            /\ ReportedFor(mon.warnings, p.name, "Overdue tasks need attention")
                  <=> \E t \in ProjectTasks(p.id) : Overdue(t)
            /\ ReportedFor(mon.warnings, p.name, "Blocked tasks need investigation")
                  <=> \E t \in ProjectTasks(p.id) : StaleBlocked(t)
            /\ ReportedFor(mon.warnings, p.name, "No tasks in progress")
                  <=> IdleProject(p.id)
            /\ ReportedFor(mon.warnings, p.name, "Multiple TODO tasks")
                  <=> BacklogProject(p.id)

\* the Overdue line is written only for a project with an overdue task
C25_OverdueLineOnlyWhenOverdue ==
    SuggestionsReturned =>
        \A p \in Elems(get_active_projects) :
            ReportedFor(mon.warnings, p.name, "Overdue tasks need attention")
                => \E t \in ProjectTasks(p.id) : Overdue(t)

\* a project with a task blocked for more than 3 days has the Blocked line
C25_StaleBlockedReported ==
    SuggestionsReturned =>
        \A p \in Elems(get_active_projects) :
            (\E t \in ProjectTasks(p.id) : StaleBlocked(t))
                => ReportedFor(mon.warnings, p.name, "Blocked tasks need investigation")

\* a project with no task in progress and a todo task has the Idle line
C25_IdleReported ==
    SuggestionsReturned =>
        \A p \in Elems(get_active_projects) :
            IdleProject(p.id) => ReportedFor(mon.warnings, p.name, "No tasks in progress")

\* the text never holds the Idle line or the Backlog line
C25_IdleAndBacklogNeverWritten ==
    SuggestionsReturned =>
        /\ ~Contains(mon.warnings, "No tasks in progress")
        /\ ~Contains(mon.warnings, "Multiple TODO tasks")

\* the Overdue line is written exactly when the warnings of the project are
\* not the all-clear text, whatever the warning is
C25_OverdueLineForAnyWarning ==
    SuggestionsReturned =>
        \A p \in Elems(get_active_projects) :
            ReportedFor(mon.warnings, p.name, "Overdue tasks need attention")
                <=> \E t \in ProjectTasks(p.id) :
                        Overdue(t) \/ StaleBlocked(t) \/ UnassignedUrgent(t)

-----------------------------------------------------------------------------
(* Which tasks one scan sends to workers (specification SpecBacklog)        *)

\* critical before high before medium before low
PriorityRank(priority) ==
    CASE priority = "critical" -> 4
      [] priority = "high" -> 3
      [] priority = "medium" -> 2
      [] OTHER -> 1

\* the tasks of the project for which the scan has sent a request
RequestedTasksOf(name) == {dispatched[i].task_id : i \in RequestsOf(name)}

\* C23: in one scan, at most 3 tasks of a project are sent to workers, and
\* no task is sent while a todo task of the same project with a strictly
\* higher priority is not sent in that scan.
C23_HighestPriorityFirst ==
    ScanFinished =>
        \A p \in Elems(get_active_projects) :
            /\ Cardinality(RequestedTasksOf(p.name)) <= 3
            /\ \A sent \in RequestedTasksOf(p.name) :
                   \A j \in DOMAIN tasks :
                       ( /\ tasks[j].project_id = p.id /\ tasks[j].status = "todo"
                         /\ PriorityRank(tasks[j].priority) > PriorityRank(tasks[sent].priority) )
                       => j \in RequestedTasksOf(p.name)

\* the first half of C23 alone: at most 3 tasks of a project in one scan
C23_AtMostThree ==
    \A p \in Elems(get_active_projects) : Cardinality(RequestedTasksOf(p.name)) <= 3

\* the tasks sent are among the 3 todo tasks of the project created last
C23_LatestCreatedOnly ==
    \A p \in Elems(get_active_projects) :
        \A sent \in RequestedTasksOf(p.name) :
            Cardinality({j \in DOMAIN tasks :
                            /\ tasks[j].project_id = p.id /\ tasks[j].status = "todo"
                            /\ tasks[j].created_at > tasks[sent].created_at}) < 3

-----------------------------------------------------------------------------
(* Classification and dispatch (specification Spec)                         *)

\* C26: whenever a dispatch call has sent a request for a task, the call has
\* classified the task with detect_agent_specialty before.
C26_ClassifiedBeforeRequest == call.sent # <<>> => call.detected # None

\* what detect_agent_specialty returns for the task of the call
SpecialtyOfTask(task_id) ==
    detect_agent_specialty(tasks[task_id].title, Some(OrEmpty(tasks[task_id].description)))

\* C26, amended: execute_with_specialist_agent classifies an existing task
\* exactly when it is called without an agent_key (None or ""), and then
\* every request of the call goes to the worker of the classified specialty,
\* the frontend worker for "general"; a call with an agent_key and a call of
\* execute_task_with_dev_agent send their requests without classification.
C26_ClassifiedWhenNoKeyGiven ==
    /\ (call.fn = "specialist" /\ call.pc \in {"attempt", "done"}
            /\ call.task_id \in DOMAIN tasks)
           => /\ call.detected # None <=> call.given_key \in {None, Some("")}
              /\ call.detected # None =>
                    /\ call.detected = Some(SpecialtyOfTask(call.task_id))
                    /\ \A i \in DOMAIN call.sent :
                           call.sent[i].url =
                               AgentInfo(IF call.detected[1] = "general" THEN "frontend"
                                         ELSE call.detected[1]).endpoint \o "/execute-task"
    /\ call.fn = "dev" => call.detected = None

\* a call without an agent_key has classified the task and sent a request
C26_Witness ==
    /\ call.fn = "specialist" /\ call.given_key = Some("")
    /\ call.detected # None /\ call.sent # <<>>

\* a call of execute_task_with_dev_agent has sent a request, unclassified
C26_DevWitness == call.fn = "dev" /\ call.sent # <<>> /\ call.detected = None

-----------------------------------------------------------------------------
(* The order of the requests of one batch (specification SpecBatchPriority) *)

\* the calls of the running batch that have sent a request to the worker
RequestedInBatch(worker) ==
    {k \in DOMAIN batch.returns :
        batch.returns[k].requests > 0 /\ batch.returns[k].agent_key = worker}

\* C27: of two tasks of one batch_assign_tasks call whose requests go to the
\* same worker, the task of higher priority has its request sent first.
C27_SameWorkerPriorityOrder ==
    \A worker \in Elems(AgentKeys) :
        \A i, j \in RequestedInBatch(worker) :
            i < j => PriorityRank(tasks[batch.returns[i].task_id].priority)
                        >= PriorityRank(tasks[batch.returns[j].task_id].priority)

\* C27, amended: batch_assign_tasks calls auto_assign_task for the ids in
\* the order of the task_ids list, one call per list position, whatever the
\* priorities and the workers of the tasks are.
C27_IssuedInListOrder ==
    /\ \A k \in DOMAIN batch.returns : batch.returns[k].task_id = batch.task_ids[k]
    /\ (call.caller = "batch" /\ call.pc # "idle")
           => /\ Len(batch.returns) < Len(batch.task_ids)
              /\ call.task_id = batch.task_ids[Len(batch.returns) + 1]

\* two requests have gone to one worker, the first for a medium task and
\* the second for a high task
C27_Witness ==
    \E worker \in Elems(AgentKeys) :
        \E i, j \in RequestedInBatch(worker) :
            /\ i < j
            /\ tasks[batch.returns[i].task_id].priority = "medium"
            /\ tasks[batch.returns[j].task_id].priority = "high"

-----------------------------------------------------------------------------
(* Requests repeated after a timeout (specification Spec)                   *)

\* C28: a dispatch call whose request timed out while the worker was at work
\* (a read timeout) sends the request again unless it was the third, so one
\* call can leave up to 3 requests with the worker; every request of a call
\* is the same URL and the same {task_id} and nothing else, so the worker
\* cannot tell a retry from a first request.
C28_TimeoutRepeatsSameRequest ==
    /\ Len(call.sent) <= 3
    /\ \A i \in DOMAIN call.sent :
          /\ DOMAIN call.sent[i] = {"url", "task_id"}
          /\ call.sent[i] = call.sent[1]
          /\ call.sent[i].task_id = call.task_id
    /\ \A i \in DOMAIN call.hist :
          (call.hist[i] = "ReadTimeout" /\ i < 3)
              => (call.pc = "attempt" \/ Len(call.sent) > i)

\* three requests of one call have each met a read timeout
C28_Witness ==
    /\ call.hist = <<"ReadTimeout", "ReadTimeout", "ReadTimeout">>
    /\ Len(call.sent) = 3 /\ call.sent[1] = call.sent[3]
    /\ call.retAt = RetTimeout

-----------------------------------------------------------------------------
(* Dispatch and the status of the task (specification SpecScanAndChat)      *)

C29_ChatRepeatsScanDispatch ==
    /\ mon.pc = "send" /\ call.caller = "chat" /\ call.sent # <<>>
    /\ \E i \in DOMAIN dispatched : dispatched[i].task_id = call.task_id

\* the chat loop sends a request for a done task
C29_ChatSendsDoneTask ==
    /\ call.caller = "chat" /\ call.sent # <<>>
    /\ tasks[call.task_id].status = "done"

\* at no time are two dispatch calls of the process under way: a second call
\* starts only when the first has returned
C29_OneCallAtATime ==
    [][(call.pc = "attempt" /\ call'.pc = "attempt")
           => (call'.caller = call.caller /\ call'.task_id = call.task_id)]_vars

-----------------------------------------------------------------------------
(* A failed create_new_agent and the calls after it (specification          *)
(* SpecRegistry)                                                            *)

\* the places of create_new_agent after the copy of the template
AfterCopy == {"package.json", ".env.example", "agent.ts", "register", "register write"}

RequestedSpecialties == {WorkerRequests[i].specialty : i \in 1..Len(WorkerRequests)}

\* the caller is at work in the directory of the specialty
Scaffolding(p, specialty) ==
    /\ reg[p].pc \in AfterCopy
    /\ AgentDirName(reg[p].specialty) = AgentDirName(specialty)

\* the directory of the specialty was made by a call that is over, and the
\* worker is not registered
LeftBehind(specialty) ==
    /\ AgentDirName(specialty) \in DOMAIN dirs
    /\ dirs[AgentDirName(specialty)] # "shipped"
    /\ \A c \in committed : c.key # Lower(specialty)
    /\ ~Scaffolding(FirstCaller, specialty)

\* C30: a create_new_agent(request_approval=False) call that fails after the
\* copy of the template leaves the new directory on disk; from then on the
\* directory stays, the worker stays unregistered, and every later call for
\* the specialty that reaches the directory test returns 'already exists'.
C30_FailedScaffoldingStays ==
    [][\A specialty \in RequestedSpecialties :
          /\ ( /\ Scaffolding(FirstCaller, specialty)
               /\ reg'[FirstCaller].pc = "done"
               /\ reg'[FirstCaller].retAt = RetCreateError )
             => LeftBehind(specialty)'
          /\ LeftBehind(specialty)
             => /\ LeftBehind(specialty)'
                /\ ( /\ reg[FirstCaller].pc = "dir check"
                     /\ AgentDirName(reg[FirstCaller].specialty) = AgentDirName(specialty)
                     /\ reg'[FirstCaller] # reg[FirstCaller] )
                   => reg'[FirstCaller].retAt = RetDirExists]_vars

\* a call without approval request for a specialty whose directory an
\* earlier failed call left behind has returned 'already exists'
C30_Witness ==
    \E specialty \in RequestedSpecialties :
        /\ LeftBehind(specialty)
        /\ dirs[AgentDirName(specialty)] \in {"copied", "package.json", ".env.example", "agent.ts"}
        /\ reg[FirstCaller].pc = "done" /\ reg[FirstCaller].retAt = RetDirExists
        /\ ~reg[FirstCaller].request_approval
        /\ reg[FirstCaller].specialty = specialty

====
